---- MODULE Spec2Model ----
(***************************************************************************)
(* Semblance, NE (New Executable) table decoding: src/src/ne_header.c.     *)
(*                                                                         *)
(* The input file is a sequence of bytes (0..255); file offset o is        *)
(* f[o+1].  A C string is the sequence of its bytes without the            *)
(* terminating NUL.  A nullable pointer to a string is <<>> (NULL) or      *)
(* <<s>> (a pointer to the string s).                                      *)
(***************************************************************************)
EXTENDS Integers, Sequences, FiniteSets, TLC

VARIABLES
    pc,          \* the next stage of dumpne/readne to run
    input,       \* the tables the input file was built from (never read by the program)
    f,           \* the bytes of the input file
    opts,        \* option bits (a set of names): DEMANGLE
    mode,        \* mode bits (a set of names): DISASSEMBLE, SPECFILE, ...
    fs,          \* the text files of the working directory: name -> <<>> or <<bytes>>
    header,      \* ne->header
    enttab,      \* ne->enttab
    entcount,    \* ne->entcount
    modname,     \* ne->name
    description, \* ne->description
    nametab,     \* ne->nametab
    imptab,      \* ne->imptab
    diag,        \* what was written to stderr, in order
    stray,       \* the indexes of the stores made outside the entry table
    run,         \* 1 for the first invocation of the program, 2 for the second
    prev,        \* the entry table the first invocation decoded
    func,        \* demangle: the name a table reader decoded
    stages,      \* demangle: the decoding state after each stage so far
    stored,      \* demangle: what the table reader stores, <<>> until then
    argv,        \* main: the command line after the program name
    optind,      \* main: the index in argv of the next argument
    out,         \* main: what main and dump_file did, in order
    heap,        \* the blocks malloc, calloc and strdup returned, in order
    trace,       \* the stages of readne begun so far, each with its seek
    walk,        \* get_entry_table: its locals and the position of f
    visits       \* get_entry_table: the bundle headers each pass has read

\* the variables of one name's way through demangle
demangleVars == <<func, stages, stored>>

\* the variables of main
mainVars == <<argv, optind, out>>

\* the variables of one call of get_entry_table taken loop by loop
entryVars == <<walk, visits>>

vars == <<pc, input, f, opts, mode, fs, header, enttab, entcount, modname,
          description, nametab, imptab, diag, stray, run, prev, demangleVars,
          mainVars, heap, trace, entryVars>>

----------------------------------------------------------------------------
(* Generic helpers                                                         *)

RECURSIVE SeqsUpTo(_, _)
\* all sequences over S of length at most n
SeqsUpTo(S, n) ==
    IF n = 0 THEN {<<>>}
    ELSE LET shorter == SeqsUpTo(S, n - 1)
         IN  shorter \cup {Append(s, x) : s \in {t \in shorter : Len(t) = n - 1}, x \in S}

\* all sequences over S of length exactly n
SeqsOfLen(S, n) == {s \in SeqsUpTo(S, n) : Len(s) = n}

RECURSIVE Flatten(_)
\* the concatenation of a sequence of sequences
Flatten(ss) == IF ss = <<>> THEN <<>> ELSE Head(ss) \o Flatten(Tail(ss))

RECURSIVE SumSeq(_)
SumSeq(s) == IF s = <<>> THEN 0 ELSE Head(s) + SumSeq(Tail(s))

Lo(w) == w % 256
Hi(w) == (w \div 256) % 256
WordBytes(w) == <<Lo(w), Hi(w)>>
DWordBytes(d) == <<Lo(d), Hi(d), (d \div 65536) % 256, (d \div 16777216) % 256>>

Bit(x, b) == (x \div b) % 2 = 1

NoName == <<>>
Some(s) == <<s>>

----------------------------------------------------------------------------
(* The byte cursor (read_byte, read_word of semblance.h)                   *)

\* getc past the end of the file is EOF, which read_byte narrows to 0xff
ByteAt(file, pos) == IF pos >= 0 /\ pos < Len(file) THEN file[pos + 1] ELSE 255

\* a little-endian 16-bit word
WordAt(file, pos) == ByteAt(file, pos) + 256 * ByteAt(file, pos + 1)

DWordAt(file, pos) == WordAt(file, pos) + 65536 * WordAt(file, pos + 2)

\* fread of n bytes at pos: the bytes the file holds there
BytesAt(file, pos, n) == [i \in 1..n |-> ByteAt(file, pos + i - 1)]

\* whether the n bytes at pos all lie inside the file
InFile(file, pos, n) == pos >= 0 /\ pos + n <= Len(file)

\* a buffer read as a C string: its bytes up to the first NUL
CStr(bytes) ==
    LET nuls == {i \in 1..Len(bytes) : bytes[i] = 0}
    IN  IF nuls = {} THEN bytes
        ELSE SubSeq(bytes, 1, (CHOOSE i \in nuls : \A j \in nuls : i <= j) - 1)

----------------------------------------------------------------------------
(* struct header_ne: the 64-byte packed header                             *)

HeaderSize == 64

ReadHeaderAt(file, off) ==
    [ne_enttab  |-> WordAt(file, off + 4),
     ne_cmod    |-> WordAt(file, off + 30),
     ne_segtab  |-> WordAt(file, off + 34),
     ne_rsrctab |-> WordAt(file, off + 36),
     ne_restab  |-> WordAt(file, off + 38),
     ne_modtab  |-> WordAt(file, off + 40),
     ne_imptab  |-> WordAt(file, off + 42),
     ne_nrestab |-> DWordAt(file, off + 44)]

----------------------------------------------------------------------------
(* get_entry_table                                                         *)

InterruptSig == 16205   \* 0x3fcd
MovableType == 255      \* 0xff

\* calloc'ed struct entry
ZeroEntry == [flags |-> 0, segment |-> 0, offset |-> 0, name |-> NoName]

\* the counting pass taking every record for a 3-byte one
BundleSkipThree(index, length) == IF index # 0 THEN 3 * length ELSE 0

\* the counting pass skipping the records of a placeholder bundle as well
BundleSkipPlaceholders(index, length) == (IF index = MovableType THEN 6 ELSE 3) * length

\* the bytes the counting pass skips after a bundle header
BundleSkip(index, length) ==
    IF index # 0 THEN (IF index = MovableType THEN 6 ELSE 3) * length ELSE 0

RECURSIVE CountPass(_, _, _)
\* the counting loop: the total count, or -1 when the loop runs off the end of
\* the file (every further read_byte is 0xff and the loop never ends)
CountPass(file, pos, count) ==
    IF ~InFile(file, pos, 1) THEN -1
    ELSE LET length == ByteAt(file, pos)
         IN  IF length = 0 THEN count
             ELSE LET index == ByteAt(file, pos + 1)
                  IN  CountPass(file, pos + 2 + BundleSkip(index, length), count + length)

\* a decode that takes the segment of a fixed record from the record's first byte
DecodeRecordSegmentByte(file, pos, index, count, old) ==
    IF index = MovableType THEN
        [entry |-> [old EXCEPT !.flags = ByteAt(file, pos),
                               !.segment = ByteAt(file, pos + 3),
                               !.offset = WordAt(file, pos + 4)],
         warn  |-> IF WordAt(file, pos + 1) # InterruptSig
                   THEN <<[kind |-> "interrupt", entry |-> count + 1,
                           b1 |-> WordAt(file, pos + 1) % 256, b2 |-> 0]>>
                   ELSE <<>>,
         size  |-> 6]
    ELSE IF index = 0 THEN
        [entry |-> old, warn |-> <<>>, size |-> 0]
    ELSE
        [entry |-> [old EXCEPT !.flags = ByteAt(file, pos),
                               !.segment = ByteAt(file, pos),
                               !.offset = WordAt(file, pos + 1)],
         warn  |-> <<>>,
         size  |-> 3]

\* a decode that rejects a movable record whose signature is not 0x3fcd
DecodeRecordStrict(file, pos, index, count, old) ==
    IF index = MovableType THEN
        [entry |-> IF WordAt(file, pos + 1) # InterruptSig THEN old
                   ELSE [old EXCEPT !.flags = ByteAt(file, pos),
                                    !.segment = ByteAt(file, pos + 3),
                                    !.offset = WordAt(file, pos + 4)],
         warn  |-> IF WordAt(file, pos + 1) # InterruptSig
                   THEN <<[kind |-> "interrupt", entry |-> count + 1,
                           b1 |-> WordAt(file, pos + 1) % 256, b2 |-> 0]>>
                   ELSE <<>>,
         size  |-> 6]
    ELSE IF index = 0 THEN
        [entry |-> old, warn |-> <<>>, size |-> 0]
    ELSE
        [entry |-> [old EXCEPT !.flags = ByteAt(file, pos),
                               !.segment = index,
                               !.offset = WordAt(file, pos + 1)],
         warn  |-> <<>>,
         size  |-> 3]

\* one iteration of the inner for loop at write index count: the entry stored,
\* the warnings written and the bytes read
DecodeRecord(file, pos, index, count, old) ==
    IF index = MovableType THEN
        LET w == WordAt(file, pos + 1)
        IN  [entry |-> [old EXCEPT !.flags = ByteAt(file, pos),
                                   !.segment = ByteAt(file, pos + 3),
                                   !.offset = WordAt(file, pos + 4)],
             warn  |-> IF w # InterruptSig
                       THEN <<[kind |-> "interrupt", entry |-> count + 1,
                               b1 |-> w % 256, b2 |-> w \div 65536]>>
                       ELSE <<>>,
             size  |-> 6]
    ELSE IF index = 0 THEN
        [entry |-> old, warn |-> <<>>, size |-> 0]
    ELSE
        [entry |-> [old EXCEPT !.flags = ByteAt(file, pos),
                               !.segment = index,
                               !.offset = WordAt(file, pos + 1)],
         warn  |-> <<>>,
         size  |-> 3]

RECURSIVE FillRecords(_, _, _, _, _)
\* the inner for loop, n records left; st = [tab, count, pos, warns, oob]
FillRecords(file, index, n, st, cap) ==
    IF n = 0 THEN st
    ELSE LET inside == st.count < cap
             old == IF inside THEN st.tab[st.count + 1] ELSE ZeroEntry
             r == DecodeRecord(file, st.pos, index, st.count, old)
         IN  FillRecords(file, index, n - 1,
                 [tab   |-> IF inside THEN [st.tab EXCEPT ![st.count + 1] = r.entry]
                            ELSE st.tab,
                  count |-> st.count + 1,
                  pos   |-> st.pos + r.size,
                  warns |-> st.warns \o r.warn,
                  oob   |-> st.oob \/ (~inside /\ index # 0)],
                 cap)

RECURSIVE FillPass(_, _, _)
\* the filling loop over the bundles
FillPass(file, st, cap) ==
    IF ~InFile(file, st.pos, 1) THEN [st EXCEPT !.count = -1]
    ELSE LET length == ByteAt(file, st.pos)
         IN  IF length = 0 THEN st
             ELSE FillPass(file,
                      FillRecords(file, ByteAt(file, st.pos + 1), length,
                                  [st EXCEPT !.pos = st.pos + 2], cap),
                      cap)

\* get_entry_table(start, ne): [status, enttab, entcount, warns]
GetEntryTable(file, start) ==
    LET count == CountPass(file, start, 0)
    IN  IF count < 0
        THEN [status |-> "hang", enttab |-> <<>>, entcount |-> 0, warns |-> <<>>]
        ELSE LET st == FillPass(file,
                           [tab |-> [i \in 1..count |-> ZeroEntry], count |-> 0,
                            pos |-> start, warns |-> <<>>, oob |-> FALSE],
                           count)
             IN  [status   |-> IF st.count < 0 THEN "hang"
                               ELSE IF st.oob THEN "overrun" ELSE "ok",
                  enttab   |-> st.tab,
                  entcount |-> st.count,
                  warns    |-> st.warns]

----------------------------------------------------------------------------
(* Text: a C string literal as its bytes                                   *)

PrintableAscii ==
    " !\"#$%&'()*+,-./0123456789:;<=>?@ABCDEFGHIJKLMNOPQRSTUVWXYZ[\\]^_ abcdefghijklmnopqrstuvwxyz{|}~"

\* the ASCII code of a one-character string (code 96 is not in the table)
Ord(c) == CHOOSE i \in (32..126) \ {96} : SubSeq(PrintableAscii, i - 31, i - 31) = c

\* the bytes of a string of printable ASCII characters
Bytes(str) == [i \in 1..Len(str) |-> Ord(SubSeq(str, i, i))]

TAB == 9
NL == 10

IsDigit(c) == c >= 48 /\ c <= 57

\* strstr(s + from - 1, "@@") as a 1-based index into s, 0 for NULL
FindAtAt(s, from) ==
    LET hits == {i \in from..(Len(s) - 1) : s[i] = 64 /\ s[i + 1] = 64}
    IN  IF hits = {} THEN 0 ELSE CHOOSE i \in hits : \A j \in hits : i <= j

\* strchr(s + from - 1, c) as a 1-based index into s, 0 for NULL
FindChar(s, from, c) ==
    LET hits == {i \in from..Len(s) : s[i] = c}
    IN  IF hits = {} THEN 0 ELSE CHOOSE i \in hits : \A j \in hits : i <= j

----------------------------------------------------------------------------
\* the string literals of the source, as bytes
StrStatic == Bytes("static ")
StrVirtual == Bytes("virtual ")
StrNear == Bytes("near ")
StrPrivate == Bytes("private ")
StrProtected == Bytes("protected ")
StrPublic == Bytes("public ")
StrParenX == Bytes("(X")
StrCloseSpace == Bytes(") ")
StrParenUnderscore == Bytes("(_")
StrSpace == Bytes(" ")
StrConst == Bytes("const ")
StrVolatile == Bytes("volatile ")
StrAmp == Bytes("&")
StrStar == Bytes("*")
StrFloat == Bytes("float ")
StrDouble == Bytes("double ")
StrVoid == Bytes("void ")
StrScope == Bytes("::")
StrComma == Bytes(", ")
StrPascal == Bytes("__pascal ")
StrVoidArgs == Bytes("(void)")
StrOpen == Bytes("(")
StrClose == Bytes(")")
StrOrd == Bytes(".ORD")
StrSpecDir == Bytes("spec/")
StrGenerated == Bytes("# Generated by dumpne -o")

----------------------------------------------------------------------------
(* demangle, demangle_protection, demangle_type                            *)
(*                                                                         *)
(* The name is the C string s; the C pointer p is the 1-based index of the *)
(* character it points at, and s[Len(s)+1] is the terminating NUL.  A      *)
(* decoding state d is [buf, prot, warns, st, len, p]: the work buffer,    *)
(* the recorded protection byte, the warnings written, the length the last *)
(* helper returned, the pointer p of demangle, and st = "ok" until the     *)
(* decode leaves defined behaviour:                                        *)
(*   "segv"      a NULL-derived or wild pointer is dereferenced            *)
(*   "overread"  a byte outside the string's buffer is read                *)
(*   "overflow"  the work buffer is written outside its 1024 bytes         *)

BufSize == 1024

\* a length computed from a NULL pointer: no character of the string
WildLen == -1

\* the character at index i of the C string s, its terminating NUL included
Ch(s, i) == IF i >= 1 /\ i <= Len(s) THEN s[i] ELSE 0

\* whether index i is a byte of the buffer holding s
InStr(s, i) == i >= 1 /\ i <= Len(s) + 1

\* strcat(buffer, text)
Cat(d, text) ==
    [d EXCEPT !.buf = @ \o text,
              !.st = IF @ = "ok" /\ Len(d.buf) + Len(text) >= BufSize
                     THEN "overflow" ELSE @]

Broken(d, how) == [d EXCEPT !.st = IF @ = "ok" THEN how ELSE @]

\* warn(...)
Warn(d, kind, c) == [d EXCEPT !.warns = Append(@, [kind |-> kind, ch |-> c])]

SetLen(d, n) == [d EXCEPT !.len = n]

\* p += len
Advance(d) ==
    [d EXCEPT !.p = IF d.len = WildLen \/ @ = WildLen THEN WildLen ELSE @ + d.len]

\* (strchr(start, '@')+1)-start
ThroughAt(s, start, at) == IF at = 0 THEN WildLen ELSE at + 1 - start

\* the keywords of a protection letter 'A'..'V', v = letter - 'A'
ProtectionWords(v) ==
    (IF Bit(v, 2) THEN StrStatic ELSE <<>>)
    \o (IF Bit(v, 4) THEN StrVirtual ELSE <<>>)
    \o (IF ~Bit(v, 1) THEN StrNear ELSE <<>>)
    \o (IF (v \div 8) % 4 = 0 THEN StrPrivate
        ELSE IF (v \div 8) % 4 = 1 THEN StrProtected
        ELSE IF (v \div 8) % 4 = 2 THEN StrPublic
        ELSE <<>>)

\* the '_' form after its recursive call returned inner
ProtectionUnderscore(s, start, inner) ==
    IF inner.st # "ok" THEN inner
    ELSE IF ~InStr(s, start + 3) THEN Broken(inner, "overread")
    ELSE IF IsDigit(Ch(s, start + 3))
    THEN SetLen(Cat(inner, StrParenUnderscore \o <<Ch(s, start + 2), Ch(s, start + 3)>>
                           \o StrCloseSpace), 4)
    ELSE SetLen(inner, ThroughAt(s, start, FindChar(s, start, 64)))

RECURSIVE DemangleProtection(_, _, _)
\* returns d with len the value returned
DemangleProtection(s, start, d) ==
    IF d.st # "ok" THEN d
    ELSE IF ~InStr(s, start) THEN Broken(d, "overread")
    ELSE IF Ch(s, start) >= 65 /\ Ch(s, start) <= 86
    THEN [Cat(d, ProtectionWords(Ch(s, start) - 65)) EXCEPT !.prot = Ch(s, start), !.len = 1]
    ELSE IF Ch(s, start) = 89 THEN SetLen(Cat(d, StrNear), 1)
    ELSE IF Ch(s, start) = 90 THEN SetLen(d, 1)
    ELSE IF Ch(s, start) = 88 THEN
        IF IsDigit(Ch(s, start + 1))
        THEN [Cat(d, StrParenX \o <<Ch(s, start + 1)>> \o StrCloseSpace)
                  EXCEPT !.prot = 86, !.len = 2]
        ELSE [d EXCEPT !.prot = 86,
                       !.len = ThroughAt(s, start, FindChar(s, start, 64))]
    ELSE IF Ch(s, start) = 95 /\ Ch(s, start + 1) # 36
    THEN ProtectionUnderscore(s, start, DemangleProtection(s, start + 1, d))
    ELSE SetLen(Warn(d, "modifier", Ch(s, start)), 0)

int_types ==
    <<Bytes("signed char"), Bytes("char"), Bytes("unsigned char"), Bytes("short"),
      Bytes("unsigned short"), Bytes("int"), Bytes("unsigned int"), Bytes("long"),
      Bytes("unsigned long")>>

\* the qualifiers of a pointer or reference, q = type[1] - 'A'
PointerQualifiers(q) ==
    (IF Bit(q, 1) THEN StrConst ELSE <<>>) \o (IF Bit(q, 2) THEN StrVolatile ELSE <<>>)

\* a pointer or reference that counts one character for itself
PointerSuffixCountsOne(c, q, inner) ==
    IF inner.st # "ok" THEN inner
    ELSE SetLen(Cat(inner, (IF ~Bit(q, 4) THEN StrNear ELSE <<>>)
                           \o (IF c = 65 THEN StrAmp ELSE StrStar)),
                IF inner.len = WildLen THEN WildLen ELSE inner.len + 1)

\* the end of case 'A'/'P' after the pointee is decoded into inner
PointerSuffix(c, q, inner) ==
    IF inner.st # "ok" THEN inner
    ELSE SetLen(Cat(inner, (IF ~Bit(q, 4) THEN StrNear ELSE <<>>)
                           \o (IF c = 65 THEN StrAmp ELSE StrStar)),
                IF inner.len = WildLen THEN WildLen ELSE inner.len + 2)

\* case 'U'/'V' with end the terminator found (0 for none)
NamedType(s, type, end, d) ==
    IF end = 0
    THEN SetLen(Cat(d, SubSeq(s, type + 1, Len(s)) \o StrSpace), WildLen)
    ELSE SetLen(Cat(d, SubSeq(s, type + 1, end - 1) \o StrSpace), end - type)

\* the terminator of a named type: the next "@@", else the first '@'
NamedTypeEnd(s, type) ==
    IF FindAtAt(s, type) # 0 THEN FindAtAt(s, type) ELSE FindChar(s, type, 64)

RECURSIVE DemangleType(_, _, _)
\* returns d with len the number of characters processed
DemangleType(s, type, d) ==
    IF d.st # "ok" THEN d
    ELSE IF ~InStr(s, type) THEN Broken(d, "overread")
    ELSE IF Ch(s, type) >= 67 /\ Ch(s, type) <= 75
    THEN SetLen(Cat(d, int_types[Ch(s, type) - 66] \o StrSpace), 1)
    ELSE IF Ch(s, type) = 65 \/ Ch(s, type) = 80
    THEN PointerSuffix(Ch(s, type), Ch(s, type + 1) - 65,
             DemangleType(s, type + 2, Cat(d, PointerQualifiers(Ch(s, type + 1) - 65))))
    ELSE IF Ch(s, type) = 77 THEN SetLen(Cat(d, StrFloat), 1)
    ELSE IF Ch(s, type) = 78 THEN SetLen(Cat(d, StrDouble), 1)
    ELSE IF Ch(s, type) = 85 \/ Ch(s, type) = 86
    THEN NamedType(s, type, NamedTypeEnd(s, type), d)
    ELSE IF Ch(s, type) = 88 THEN SetLen(Cat(d, StrVoid), 1)
    ELSE SetLen(d, 0)

\* if (!len) { warn(...); len = 1; }
OrOne(r, kind, c) ==
    IF r.st = "ok" /\ r.len = 0 THEN SetLen(Warn(r, kind, c), 1) ELSE r

\* a sentinel taken after every protection letter, the static ones too
SentinelAfterStatic(s, d) ==
    IF d.prot >= 65 /\ d.prot <= 86
    THEN SetLen(IF Ch(s, d.p) # 69 /\ Ch(s, d.p) # 70
                THEN Warn(d, "modifier", Ch(s, d.p)) ELSE d, 1)
    ELSE SetLen(d, 0)

\* the character after the protection of a non-static member
Sentinel(s, d) ==
    IF d.prot >= 65 /\ d.prot <= 86 /\ ~Bit(d.prot - 65, 2)
    THEN SetLen(IF Ch(s, d.p) # 69 /\ Ch(s, d.p) # 70
                THEN Warn(d, "modifier", Ch(s, d.p)) ELSE d, 1)
    ELSE SetLen(d, 0)

\* the calling convention
Convention(s, d) ==
    IF d.st # "ok" THEN d
    ELSE IF ~InStr(s, d.p) THEN Broken(d, "overread")
    ELSE IF Ch(s, d.p) = 65 THEN SetLen(d, 1)
    ELSE IF Ch(s, d.p) = 67 THEN SetLen(Cat(d, StrPascal), 1)
    ELSE SetLen(Warn(d, "convention", Ch(s, d.p)), 1)

\* the return value
ReturnType(s, d) == OrOne(DemangleType(s, d.p, d), "rettype", Ch(s, d.p))

\* the highest index below end of a '?' or '@', 0 for none
PrevMark(s, end) ==
    LET marks == {i \in 1..(end - 1) : s[i] = 63 \/ s[i] = 64}
    IN  IF marks = {} THEN 0 ELSE CHOOSE i \in marks : \A j \in marks : j <= i

RECURSIVE ClassName(_, _, _)
\* the class name without the classes that enclose it
ClassNameLastComponent(s, end, d) == Cat(d, SubSeq(s, PrevMark(s, end) + 1, end - 1))

\* the class name, found backwards from the first "@@" (index end)
ClassName(s, end, d) ==
    IF d.st # "ok" THEN d
    ELSE IF PrevMark(s, end) = 0 THEN Broken(d, "overread")
    ELSE IF s[PrevMark(s, end)] = 63
    THEN Cat(d, SubSeq(s, PrevMark(s, end) + 1, end - 1))
    ELSE ClassName(s, PrevMark(s, end),
                   Cat(d, SubSeq(s, PrevMark(s, end) + 1, end - 1) \o StrScope))

\* buffer[strlen(buffer)-1] = 0 when that character is a space
TrimSpace(buf) ==
    IF buf # <<>> /\ buf[Len(buf)] = 32 THEN SubSeq(buf, 1, Len(buf) - 1) ELSE buf

\* the end of one pass of the while loop, t the result of demangle_type
ArgJoin(t) == Advance(Cat([t EXCEPT !.buf = TrimSpace(@)], StrComma))

RECURSIVE ArgsLoop(_, _)
\* the while loop over the argument types
ArgsLoop(s, d) ==
    IF d.st # "ok" THEN d
    ELSE IF d.p = WildLen THEN Broken(d, "segv")
    ELSE IF ~InStr(s, d.p) THEN Broken(d, "overread")
    ELSE IF Ch(s, d.p) = 64 THEN d
    ELSE ArgsLoop(s, ArgJoin(OrOne(DemangleType(s, d.p, d), "argtype", Ch(s, d.p))))

\* buffer[strlen(buffer)-2] = ')'; buffer[strlen(buffer)-1] = 0;
CloseArgs(a) ==
    IF a.st # "ok" THEN a
    ELSE IF Len(a.buf) < 2 THEN Broken(a, "overflow")
    ELSE [a EXCEPT !.buf = SubSeq(@, 1, Len(@) - 2) \o StrClose]

\* the arguments
Arguments(s, d) ==
    IF d.st # "ok" THEN d
    ELSE IF d.p = WildLen THEN Broken(d, "segv")
    ELSE IF ~InStr(s, d.p) THEN Broken(d, "overread")
    ELSE IF Ch(s, d.p) = 88 THEN Cat(d, StrVoidArgs)
    ELSE CloseArgs(ArgsLoop(s, Cat(d, StrOpen)))

\* demangle after demangle_protection returned d.len characters
DemangleRest(s, sep, d) ==
    Arguments(s,
        ClassName(s, sep,
            Advance(ReturnType(s, Advance(Convention(s, Advance(Sentinel(s, Advance(d)))))))))

\* what demangle returns after demangle_protection: d0.len = 0 returns func
DemangleResult(s, sep, d0) ==
    IF sep = 0 THEN [st |-> "segv", str |-> s, warns |-> <<>>]
    ELSE IF d0.st # "ok" THEN [st |-> d0.st, str |-> s, warns |-> d0.warns]
    ELSE IF d0.len = 0 THEN [st |-> "ok", str |-> s, warns |-> d0.warns]
    ELSE IF d0.len = WildLen THEN [st |-> "segv", str |-> s, warns |-> d0.warns]
    ELSE DemangleRest(s, sep, d0)

\* the result of a finished decode
Rendered(s, d) ==
    IF "str" \in DOMAIN d THEN d
    ELSE [st |-> d.st, str |-> IF d.st = "ok" THEN d.buf ELSE s, warns |-> d.warns]

\* demangle(func): [st, str, warns]; str is the returned string when st = "ok"
Demangle(s) ==
    Rendered(s,
        DemangleResult(s, FindAtAt(s, 1),
            DemangleProtection(s, FindAtAt(s, 1) + 2,
                [buf |-> <<>>, prot |-> 0, warns |-> <<>>, st |-> "ok", len |-> 0,
                 p |-> FindAtAt(s, 1) + 2])))

----------------------------------------------------------------------------
(* read_res_name_table                                                     *)

\* what a name holds after a decode that left defined behaviour
Indeterminate == <<-1>>

\* the demangling policy shared by read_res_name_table and load_exports:
\* [st, str, warns]
MaybeDemangle(name, demangleOn) ==
    IF demangleOn /\ Ch(name, 1) = 63 THEN Demangle(name)
    ELSE [st |-> "ok", str |-> name, warns |-> <<>>]

\* a store at index ordinal instead of ordinal-1
AttachNameAtOrdinal(st, ordinal, name, count) ==
    IF ordinal >= 0 /\ ordinal < count
    THEN [st EXCEPT !.tab[ordinal + 1].name = Some(name)]
    ELSE [st EXCEPT !.stray = Append(@, ordinal)]

\* the store entry_table[ordinal-1].name = name into a table of count entries;
\* a store outside the table is kept in stray
AttachName(st, ordinal, name, count) ==
    IF ordinal >= 1 /\ ordinal <= count
    THEN [st EXCEPT !.tab[ordinal].name = Some(name)]
    ELSE [st EXCEPT !.stray = Append(@, ordinal - 1)]

\* the rest of one pass of the while loop once demangle has returned dm: the
\* position moves past the record and the name is stored
StoreName(st, length, ordinal, dm, count, ubCrash) ==
    IF dm.st = "segv" \/ (ubCrash /\ (dm.st # "ok" \/ ordinal < 1 \/ ordinal > count))
    THEN [st EXCEPT !.warns = @ \o dm.warns, !.pos = @ + 1 + length + 2,
                    !.status = "crash"]
    ELSE AttachName([st EXCEPT !.warns = @ \o dm.warns, !.pos = @ + 1 + length + 2],
                    ordinal, IF dm.st = "ok" THEN dm.str ELSE Indeterminate, count)

RECURSIVE NameRecords(_, _, _, _, _)
\* the while loop over the records; st = [status, tab, pos, warns, stray]
NameRecords(file, st, count, demangleOn, ubCrash) ==
    IF st.status # "ok" THEN st
    ELSE IF ~InFile(file, st.pos, 1) THEN [st EXCEPT !.status = "eof"]
    ELSE IF ByteAt(file, st.pos) = 0 THEN st
    ELSE IF ~InFile(file, st.pos + 1, ByteAt(file, st.pos) + 2)
    THEN [st EXCEPT !.status = "eof"]
    ELSE NameRecords(file,
             StoreName(st, ByteAt(file, st.pos),
                       WordAt(file, st.pos + 1 + ByteAt(file, st.pos)),
                       MaybeDemangle(CStr(BytesAt(file, st.pos + 1, ByteAt(file, st.pos))),
                                     demangleOn),
                       count, ubCrash),
             count, demangleOn, ubCrash)

\* what read_res_name_table leaves once its loop ended in st
NameTableResult(first, st) ==
    [status |-> st.status, first |-> first, tab |-> st.tab, warns |-> st.warns,
     stray |-> st.stray]

\* a decode that does not skip the 2-byte field after the first record
ReadResNameTableNoSkip(file, start, tab, count, demangleOn, ubCrash) ==
    IF ~InFile(file, start, 1 + ByteAt(file, start))
    THEN [status |-> "eof", first |-> <<>>, tab |-> tab, warns |-> <<>>,
          stray |-> <<>>]
    ELSE NameTableResult(CStr(BytesAt(file, start + 1, ByteAt(file, start))),
             NameRecords(file,
                 [status |-> "ok", tab |-> tab,
                  pos |-> start + 1 + ByteAt(file, start),
                  warns |-> <<>>, stray |-> <<>>],
                 count, demangleOn, ubCrash))

\* read_res_name_table(start, entry_table):
\* [status, first, tab, warns, stray]; first is the returned string
ReadResNameTable(file, start, tab, count, demangleOn, ubCrash) ==
    IF ~InFile(file, start, 1 + ByteAt(file, start))
    THEN [status |-> "eof", first |-> <<>>, tab |-> tab, warns |-> <<>>,
          stray |-> <<>>]
    ELSE NameTableResult(CStr(BytesAt(file, start + 1, ByteAt(file, start))),
             NameRecords(file,
                 [status |-> "ok", tab |-> tab,
                  pos |-> start + 1 + ByteAt(file, start) + 2,
                  warns |-> <<>>, stray |-> <<>>],
                 count, demangleOn, ubCrash))

----------------------------------------------------------------------------
(* The specfile: print_specfile and load_exports                           *)

LineSize == 300    \* char line[300]
NameWidth == 8     \* the precision of "%.8s.ORD"

RECURSIVE DecStr(_)
\* printf("%d") of a number n >= 0
DecStr(n) == IF n < 10 THEN <<48 + n>> ELSE DecStr(n \div 10) \o <<48 + (n % 10)>>

Prefix(s, n) == SubSeq(s, 1, IF Len(s) < n THEN Len(s) ELSE n)

\* sprintf(spec_name, "%.8s.ORD", name)
SpecName(name) == Prefix(name, NameWidth) \o StrOrd

\* sprintf(spec_name, "spec/%.8s.ORD", name)
SpecDirName(name) == StrSpecDir \o SpecName(name)

\* the line print_specfile writes for entry i (0-based), <<>> for none
SpecLine(i, e) ==
    IF e.name # NoName THEN DecStr(i + 1) \o <<TAB>> \o e.name[1] \o <<NL>>
    ELSE IF e.segment # 0 THEN DecStr(i + 1) \o <<NL>>
    ELSE <<>>

\* the text print_specfile writes
SpecText(tab, count) ==
    StrGenerated \o <<NL>>
    \o Flatten([i \in 1..count |-> SpecLine(i - 1, tab[i])])

\* the files after fopen(name, "w"), the writes and fclose
WriteFile(files, name, text) ==
    [n \in DOMAIN files \cup {name} |-> IF n = name THEN text ELSE files[n]]

\* print_specfile(ne): the files afterwards
PrintSpecfile(files, name, tab, count) ==
    WriteFile(files, SpecName(name), SpecText(tab, count))

\* fgets(line, sizeof(line), specfile) at 1-based index pos of text: the length
\* of the chunk read, which ends after a newline or after LineSize-1 characters
ChunkLen(text, pos) ==
    LET nl == FindChar(text, pos, NL)
        rest == Len(text) - pos + 1
        upto == IF nl = 0 THEN rest ELSE nl - pos + 1
    IN  IF upto > LineSize - 1 THEN LineSize - 1 ELSE upto

RECURSIVE Chunks(_, _)
\* the successive fgets results until end of file
Chunks(text, pos) ==
    IF pos > Len(text) THEN <<>>
    ELSE LET n == ChunkLen(text, pos)
         IN  <<SubSeq(text, pos, pos + n - 1)>> \o Chunks(text, pos + n)

\* line[0] == '#' || line[0] == '\n'
Skipped(chunk) == chunk[1] = 35 \/ chunk[1] = NL

\* the line as a C string after the final newline is killed
KillNewline(chunk) ==
    LET line == CStr(chunk)
        nl == FindChar(line, 1, NL)
    IN  IF nl = 0 THEN line ELSE SubSeq(line, 1, nl - 1)

IsSpace(c) == c = 32 \/ (c >= 9 /\ c <= 13)

RECURSIVE SkipSpace(_, _)
SkipSpace(s, i) == IF i <= Len(s) /\ IsSpace(s[i]) THEN SkipSpace(s, i + 1) ELSE i

RECURSIVE Digits(_, _, _)
\* the value of the digits of s from index i on, acc so far
Digits(s, i, acc) ==
    IF i <= Len(s) /\ IsDigit(s[i]) THEN Digits(s, i + 1, acc * 10 + (s[i] - 48))
    ELSE acc

\* sscanf(line, "%hu", &ordinal): the ordinal stored, or -1 when the conversion
\* fails (sscanf does not return 1)
ScanOrdinal(line) ==
    LET i == SkipSpace(line, 1)
        signed == i <= Len(line) /\ (line[i] = 43 \/ line[i] = 45)
        j == IF signed THEN i + 1 ELSE i
        v == Digits(line, j, 0)
    IN  IF j <= Len(line) /\ IsDigit(line[j])
        THEN (IF signed /\ line[i] = 45 THEN 0 - v ELSE v) % 65536
        ELSE -1

\* the export stored for a line with a tab once demangle has returned dm
NamedExport(st, ordinal, dm, ubCrash) ==
    IF dm.st = "segv" \/ (ubCrash /\ dm.st # "ok")
    THEN [st EXCEPT !.status = "crash", !.diag = @ \o dm.warns]
    ELSE [st EXCEPT !.diag = @ \o dm.warns,
                    !.exports = Append(@, [ordinal |-> ordinal,
                                  name |-> Some(IF dm.st = "ok" THEN dm.str
                                                ELSE Indeterminate)])]

\* the second loop of load_exports on a line whose newline is killed
ParseLine(st, line, demangleOn, ubCrash) ==
    IF ScanOrdinal(line) < 0
    THEN [st EXCEPT !.diag = Append(@, [kind |-> "specfile", line |-> line])]
    ELSE IF FindChar(line, 1, TAB) = 0
    THEN [st EXCEPT !.exports = Append(@, [ordinal |-> ScanOrdinal(line),
                                           name |-> NoName])]
    ELSE NamedExport(st, ScanOrdinal(line),
             MaybeDemangle(SubSeq(line, FindChar(line, 1, TAB) + 1, Len(line)),
                           demangleOn),
             ubCrash)

\* one pass of the second loop of load_exports over a chunk that is not skipped:
\* st = [status, exports, diag]
LoadLine(st, chunk, demangleOn, ubCrash) ==
    ParseLine(st, KillNewline(chunk), demangleOn, ubCrash)

RECURSIVE LoadLines(_, _, _, _)
LoadLines(st, chunks, demangleOn, ubCrash) ==
    IF chunks = <<>> \/ st.status # "ok" THEN st
    ELSE LoadLines(IF Skipped(Head(chunks)) THEN st
                   ELSE LoadLine(st, Head(chunks), demangleOn, ubCrash),
                   Tail(chunks), demangleOn, ubCrash)

\* what load_exports leaves once its second loop ended in st
ExportsResult(st) ==
    [status |-> st.status, exports |-> <<st.exports>>,
     export_count |-> Len(st.exports), diag |-> st.diag]

\* load_exports after fopen succeeded on path
LoadFrom(text, demangleOn, ubCrash) ==
    ExportsResult(LoadLines([status |-> "ok", exports |-> <<>>, diag |-> <<>>],
                            Chunks(text, 1), demangleOn, ubCrash))

\* a lookup that tries the spec directory before the working directory
LoadExportsSpecDirFirst(files, name, demangleOn, ubCrash) ==
    IF SpecDirName(name) \in DOMAIN files
    THEN LoadFrom(files[SpecDirName(name)], demangleOn, ubCrash)
    ELSE IF SpecName(name) \in DOMAIN files
    THEN LoadFrom(files[SpecName(name)], demangleOn, ubCrash)
    ELSE [status |-> "ok", exports |-> <<>>, export_count |-> 0,
          diag |-> <<[kind |-> "nospecfile", module |-> name]>>]

\* load_exports(module): [status, exports, export_count, diag]; exports is
\* <<>> (NULL) or <<the array>>
LoadExports(files, name, demangleOn, ubCrash) ==
    IF SpecName(name) \in DOMAIN files
    THEN LoadFrom(files[SpecName(name)], demangleOn, ubCrash)
    ELSE IF SpecDirName(name) \in DOMAIN files
    THEN LoadFrom(files[SpecDirName(name)], demangleOn, ubCrash)
    ELSE [status |-> "ok", exports |-> <<>>, export_count |-> 0,
          diag |-> <<[kind |-> "nospecfile", module |-> name]>>]

----------------------------------------------------------------------------
(* get_import_module_table                                                 *)

\* ne->nametab[offset], 0 where the blob holds no byte
BlobLength(blob, offset) == IF offset < Len(blob) THEN blob[offset + 1] ELSE 0

\* a copy that starts at the length byte instead of behind it
BlobNameFromLength(blob, offset) ==
    CStr([i \in 1..BlobLength(blob, offset) |-> blob[offset + i]])

\* the name copied out of the blob at offset
BlobName(blob, offset) ==
    CStr([i \in 1..BlobLength(blob, offset) |-> blob[offset + 1 + i]])

\* the table after load_exports returned ex for the module called name
WithExports(st, name, ex) ==
    [status |-> ex.status,
     imptab |-> Append(st.imptab, [name |-> name, exports |-> ex.exports,
                                   export_count |-> ex.export_count]),
     diag   |-> st.diag \o ex.diag]

\* the body of the for loop once the name is copied
ImportNamed(st, name, disassemble, files, demangleOn, ubCrash) ==
    IF disassemble
    THEN WithExports(st, name, LoadExports(files, name, demangleOn, ubCrash))
    ELSE [st EXCEPT !.imptab = Append(@, [name |-> name, exports |-> <<>>,
                                          export_count |-> 0])]

\* the body of the for loop for one module-reference entry:
\* st = [status, imptab, diag]
ImportModule(file, pos, blob, disassemble, files, demangleOn, ubCrash, st) ==
    IF st.status # "ok" THEN st
    ELSE IF ~InFile(file, pos, 2) THEN [st EXCEPT !.status = "eof"]
    ELSE IF WordAt(file, pos) + 1 + BlobLength(blob, WordAt(file, pos)) > Len(blob)
    THEN [st EXCEPT !.status = "overread"]
    ELSE ImportNamed(st, BlobName(blob, WordAt(file, pos)), disassemble, files,
                     demangleOn, ubCrash)

RECURSIVE ImportModules(_, _, _, _, _, _, _, _, _)
ImportModules(file, start, i, cmod, blob, disassemble, files, demangleOn, ubCrash) ==
    IF i = 0 THEN [status |-> "ok", imptab |-> <<>>, diag |-> <<>>]
    ELSE ImportModule(file, start + 2 * (i - 1), blob, disassemble, files,
                      demangleOn, ubCrash,
                      ImportModules(file, start, i - 1, cmod, blob, disassemble, files,
                                    demangleOn, ubCrash))

\* get_import_module_table(start, ne): [status, imptab, diag]
GetImportModuleTable(file, start, cmod, blob, disassemble, files, demangleOn, ubCrash) ==
    ImportModules(file, start, cmod, cmod, blob, disassemble, files, demangleOn, ubCrash)

----------------------------------------------------------------------------
(* The on-disk layout the input files are built in                         *)

\* a record of a bundle of the given type
EncodeRecord(type, r) ==
    IF type = MovableType
    THEN <<r.flags>> \o WordBytes(r.sig) \o <<r.segment>> \o WordBytes(r.offset)
    ELSE <<r.flags>> \o WordBytes(r.offset)

EncodeBundle(b) ==
    <<b.count, b.type>> \o Flatten([i \in 1..Len(b.recs) |-> EncodeRecord(b.type, b.recs[i])])

\* the entry table: the bundles and the terminating zero count
EncodeEntryTable(bundles) ==
    Flatten([i \in 1..Len(bundles) |-> EncodeBundle(bundles[i])]) \o <<0>>

EncodeNameRecord(r) == <<Len(r.name)>> \o r.name \o WordBytes(r.ord)

\* a name table: the first record with its 2-byte field, the records and the
\* terminating zero length
EncodeNameTable(t) ==
    <<Len(t.first)>> \o t.first \o WordBytes(0)
    \o Flatten([i \in 1..Len(t.recs) |-> EncodeNameRecord(t.recs[i])]) \o <<0>>

\* the import name blob: a zero byte and the length-prefixed names
EncodeBlob(names) == <<0>> \o Flatten([i \in 1..Len(names) |-> <<Len(names[i])>> \o names[i]])

\* the blob offset of the k-th name
BlobOffset(names, k) == 1 + SumSeq([j \in 1..(k - 1) |-> 1 + Len(names[j])])

EncodeModTab(names, refs) ==
    Flatten([i \in 1..Len(refs) |-> WordBytes(BlobOffset(names, refs[i]))])

\* the bytes before the NE header (the MZ stub)
OffsetNE == 2

\* the offsets of the tables, relative to the NE header
Layout(inp) ==
    LET restabO == HeaderSize
        modtabO == restabO + Len(EncodeNameTable(inp.res))
        imptabO == modtabO + 2 * Len(inp.modrefs)
        enttabO == imptabO + Len(EncodeBlob(inp.blobnames))
        nrestabO == enttabO + Len(EncodeEntryTable(inp.bundles))
    IN  [ne_restab |-> restabO, ne_modtab |-> modtabO, ne_imptab |-> imptabO,
         ne_enttab |-> enttabO, ne_nrestab |-> OffsetNE + nrestabO,
         ne_cmod |-> Len(inp.modrefs)]

\* struct header_ne on disk
EncodeHeader(h) ==
    <<78, 69, 5, 1>> \o WordBytes(h.ne_enttab) \o WordBytes(0) \o DWordBytes(0)
    \o WordBytes(0) \o <<0, 0>> \o WordBytes(0) \o WordBytes(0)
    \o WordBytes(0) \o WordBytes(0) \o WordBytes(0) \o WordBytes(0)
    \o WordBytes(0) \o WordBytes(h.ne_cmod) \o WordBytes(0)
    \o WordBytes(0) \o WordBytes(h.ne_restab) \o WordBytes(h.ne_restab)
    \o WordBytes(h.ne_modtab) \o WordBytes(h.ne_imptab) \o DWordBytes(h.ne_nrestab)
    \o WordBytes(0) \o WordBytes(0) \o WordBytes(0) \o <<2, 0>>
    \o WordBytes(0) \o WordBytes(0) \o WordBytes(0) \o <<10, 3>>

\* the file holding the tables of inp
BuildFile(inp) ==
    [i \in 1..OffsetNE |-> 90] \o EncodeHeader(Layout(inp))
    \o EncodeNameTable(inp.res) \o EncodeModTab(inp.blobnames, inp.modrefs)
    \o EncodeBlob(inp.blobnames) \o EncodeEntryTable(inp.bundles)
    \o EncodeNameTable(inp.nres)

----------------------------------------------------------------------------
(* The inputs                                                              *)

MaxBundles == 2     \* bundles of an entry table
MaxNameRecs == 2    \* records of a resident name table after the first
MaxMods == 2        \* entries of a module-reference table
MaxLines == 2       \* lines of a specfile

Counts == {1, 2}
FixedTypes == {1, 254}
FixedRecs == {[flags |-> 1, offset |-> 16], [flags |-> 3, offset |-> 513]}
GoodMovable == [flags |-> 1, sig |-> InterruptSig, segment |-> 2, offset |-> 772]
BadMovable == [flags |-> 3, sig |-> 8397, segment |-> 1, offset |-> 16]
MovableRecs == {GoodMovable, BadMovable}

RecSeqs(S) == {rs \in SeqsUpTo(S, 2) : Len(rs) \in Counts}

Placeholder(n) == [count |-> n, type |-> 0, recs |-> <<>>]
Bundle(t, rs) == [count |-> Len(rs), type |-> t, recs |-> rs]

Bundles ==
    {Placeholder(n) : n \in Counts}
    \cup {Bundle(t, rs) : t \in FixedTypes, rs \in RecSeqs(FixedRecs)}
    \cup {Bundle(MovableType, rs) : rs \in RecSeqs(MovableRecs)}

\* the scenario of two fixed records on segment 1 and one placeholder
ScenarioTable == <<Bundle(1, <<[flags |-> 1, offset |-> 16], [flags |-> 3, offset |-> 513]>>),
                   Placeholder(1)>>

NameHosts == {ScenarioTable, <<Bundle(MovableType, <<BadMovable>>)>>}

MangledF == Bytes("?f@@YAHXZ")
MangledG == Bytes("?g@C@@SAPADPBDH@Z")

ResRecs ==
    {[name |-> Bytes("A"), ord |-> 1], [name |-> Bytes("Bc"), ord |-> 2],
     [name |-> MangledF, ord |-> 1], [name |-> Bytes("Bc"), ord |-> 3],
     [name |-> Bytes("A"), ord |-> 0], [name |-> Bytes("Bc"), ord |-> 4]}

NresRecs == {[name |-> Bytes("D"), ord |-> 2], [name |-> MangledG, ord |-> 3]}

ResTables == {[first |-> n, recs |-> rs] :
                 n \in {<<>>, Bytes("MOD")}, rs \in SeqsUpTo(ResRecs, MaxNameRecs)}

NresTables == {[first |-> n, recs |-> rs] :
                  n \in {<<>>, Bytes("desc")}, rs \in SeqsUpTo(NresRecs, 1)}

BlobNames == <<Bytes("K"), Bytes("USER"), Bytes("LONGNAME9")>>

SpecLines ==
    {Bytes("1") \o <<TAB>> \o Bytes("A"), Bytes("2"), Bytes("# c"), <<>>,
     Bytes("x") \o <<TAB>> \o Bytes("B"), Bytes("3") \o <<TAB>> \o MangledF,
     Bytes(" 4") \o <<TAB>> \o Bytes("D") \o <<TAB>> \o Bytes("E"),
     Bytes("65541") \o <<TAB>>, <<TAB>> \o Bytes("-1")}

\* the texts of at most n lines, the last line with or without its newline
Texts(n) ==
    LET whole == {Flatten([i \in 1..Len(ls) |-> ls[i] \o <<NL>>]) :
                     ls \in SeqsUpTo(SpecLines, n)}
    IN  whole \cup {SubSeq(t, 1, Len(t) - 1) : t \in whole \ {<<>>}}

\* a line longer than the line buffer: an ordinal, a tab and a name of 300 bytes
LongLine == Bytes("5") \o <<TAB>> \o [i \in 1..LineSize |-> 97]

LongTexts == {LongLine \o <<NL>>, Bytes("2") \o <<NL>> \o LongLine \o <<NL>>}

EmptyDir == <<>>
OneFile(name, text) == WriteFile(EmptyDir, name, text)

TextA == Bytes("1") \o <<TAB>> \o Bytes("A") \o <<NL>>
TextB == Bytes("7") \o <<NL>>

Dirs ==
    {EmptyDir,
     OneFile(Bytes("K.ORD"), TextA),
     OneFile(Bytes("spec/K.ORD"), TextB),
     WriteFile(OneFile(Bytes("K.ORD"), TextA), Bytes("spec/K.ORD"), TextB),
     OneFile(Bytes("LONGNAME.ORD"), TextA),
     OneFile(Bytes("spec/USER.ORD"), TextB)}

AllModes == {"DUMPHEADER", "DUMPEXPORT", "DUMPIMPORTMOD", "DISASSEMBLE", "DUMPRSRC",
             "SPECFILE"}

BaseInput ==
    [bundles |-> <<>>, res |-> [first |-> Bytes("M"), recs |-> <<>>],
     nres |-> [first |-> Bytes("desc"), recs |-> <<>>],
     blobnames |-> <<>>, modrefs |-> <<>>]

\* the module that imports the module called name and nothing else
Importer(name) == [BaseInput EXCEPT !.blobnames = <<name>>, !.modrefs = <<1>>]

NoPrev == [enttab |-> <<>>, entcount |-> 0, modname |-> <<>>]

----------------------------------------------------------------------------
(* The heap.  A block is [slot, freed]: slot names the pointer variable    *)
(* that holds the block's address, <<"lost">> once no variable holds it,   *)
(* and freed counts the calls of free on it.                               *)

\* slot = malloc(...): the block slot pointed at before is no longer held
Malloc(h, slot) ==
    Append([i \in DOMAIN h |->
               IF h[i].slot = slot THEN [h[i] EXCEPT !.slot = <<"lost">>] ELSE h[i]],
           [slot |-> slot, freed |-> 0])

RECURSIVE MallocAll(_, _)
MallocAll(h, slots) ==
    IF slots = <<>> THEN h ELSE MallocAll(Malloc(h, Head(slots)), Tail(slots))

\* free(slot): nothing when slot is NULL, that is, points at no block
Free(h, slot) ==
    [i \in DOMAIN h |->
        IF h[i].slot = slot THEN [h[i] EXCEPT !.freed = @ + 1] ELSE h[i]]

RECURSIVE FreeAll(_, _)
FreeAll(h, slots) ==
    IF slots = <<>> THEN h ELSE FreeAll(Free(h, Head(slots)), Tail(slots))

RECURSIVE NameOrdinals(_, _)
\* the ordinal of every record the while loop of read_res_name_table reads
\* from pos on: one malloc each
NameOrdinals(file, pos) ==
    IF ~InFile(file, pos, 1) THEN <<>>
    ELSE IF ByteAt(file, pos) = 0 THEN <<>>
    ELSE IF ~InFile(file, pos + 1, ByteAt(file, pos) + 2) THEN <<>>
    ELSE <<WordAt(file, pos + 1 + ByteAt(file, pos))>>
         \o NameOrdinals(file, pos + 1 + ByteAt(file, pos) + 2)

\* the blocks of read_res_name_table(start, ...): first, kept in the
\* variable called whose, then one name per record, kept in
\* entry_table[ordinal-1].name
NameBlocks(h, whose, file, start) ==
    MallocAll(Malloc(h, <<whose>>),
              [k \in 1..Len(NameOrdinals(file, start + 1 + ByteAt(file, start) + 2)) |->
                  <<"entry",
                    NameOrdinals(file, start + 1 + ByteAt(file, start) + 2)[k]>>])

\* the slots of module i of the import module table: its name, its export
\* list when there is one, the name of every named export
ModuleSlots(i, m) ==
    <<<<"module", i>>>>
    \o (IF m.exports = <<>> THEN <<>>
        ELSE <<<<"exports", i>>>>
             \o SelectSeq([j \in 1..Len(m.exports[1]) |->
                              IF m.exports[1][j].name = NoName THEN <<>>
                              ELSE <<"export", i, j>>],
                          LAMBDA slot : slot # <<>>))

\* the blocks of get_import_module_table once it built the table tab
ImportBlocks(h, tab) ==
    MallocAll(Malloc(h, <<"imptab">>),
              Flatten([i \in 1..Len(tab) |-> ModuleSlots(i, tab[i])]))

\* the pointers freene hands to free, in order
FreeWalk(count, tab) ==
    <<<<"nametab">>, <<"name">>, <<"description">>>>
    \o [k \in 1..count |-> <<"entry", k>>]
    \o <<<<"enttab">>>>
    \o Flatten([i \in 1..Len(tab) |->
                   <<<<"module", i>>>>
                   \o (IF tab[i].exports = <<>> THEN <<>>
                       ELSE [j \in 1..tab[i].export_count |-> <<"export", i, j>>])
                   \o <<<<"exports", i>>>>])
    \o <<<<"imptab">>>>

\* every table sought relative to the NE header
TableStartAllRelative(stage, hdr) ==
    IF stage = "header" THEN OffsetNE
    ELSE IF stage = "enttab" THEN OffsetNE + hdr.ne_enttab
    ELSE IF stage = "restab" THEN OffsetNE + hdr.ne_restab
    ELSE IF stage = "nrestab" THEN OffsetNE + hdr.ne_nrestab
    ELSE IF stage = "nametab" THEN OffsetNE + hdr.ne_imptab
    ELSE OffsetNE + hdr.ne_modtab

\* the file offset a stage of readne seeks to before it reads
TableStart(stage, hdr) ==
    IF stage = "header" THEN OffsetNE
    ELSE IF stage = "enttab" THEN OffsetNE + hdr.ne_enttab
    ELSE IF stage = "restab" THEN OffsetNE + hdr.ne_restab
    ELSE IF stage = "nrestab" THEN hdr.ne_nrestab
    ELSE IF stage = "nametab" THEN OffsetNE + hdr.ne_imptab
    ELSE OffsetNE + hdr.ne_modtab

----------------------------------------------------------------------------
(* The program: dumpne(offset_ne) on the input file                        *)

\* the state on entry to dumpne
Start(inp, o, m, files, r, p) ==
    /\ pc = "header"
    /\ input = inp
    /\ f = BuildFile(inp)
    /\ opts = o
    /\ mode = m
    /\ fs = files
    /\ header = <<>>
    /\ enttab = <<>>
    /\ entcount = 0
    /\ modname = <<>>
    /\ description = <<>>
    /\ nametab = <<>>
    /\ imptab = <<>>
    /\ diag = <<>>
    /\ stray = <<>>
    /\ run = r
    /\ prev = p
    /\ heap = <<>>
    /\ trace = <<>>

InitEntry ==
    \E bs \in SeqsUpTo(Bundles, MaxBundles) :
        Start([BaseInput EXCEPT !.bundles = bs], {}, {"DUMPEXPORT"}, EmptyDir, 1, NoPrev)

InitNames ==
    \E host \in NameHosts, res \in ResTables, nres \in NresTables,
       o \in SUBSET {"DEMANGLE"}, m \in {{"DUMPEXPORT"}, {"SPECFILE"}} :
        Start([BaseInput EXCEPT !.bundles = host, !.res = res, !.nres = nres],
              o, m, EmptyDir, 1, NoPrev)

InitImports ==
    \E refs \in SeqsUpTo(1..Len(BlobNames), MaxMods), files \in Dirs,
       m \in {{"DISASSEMBLE"}, {"DUMPIMPORTMOD"}, AllModes} :
        Start([BaseInput EXCEPT !.blobnames = BlobNames, !.modrefs = refs],
              {}, m, files, 1, NoPrev)

InitSpecfiles ==
    \E text \in Texts(MaxLines) \cup LongTexts, o \in SUBSET {"DEMANGLE"} :
        Start([BaseInput EXCEPT !.blobnames = BlobNames, !.modrefs = <<1>>],
              o, {"DISASSEMBLE"}, OneFile(Bytes("K.ORD"), text), 1, NoPrev)

\* no name is on its way through demangle
NoDemangle == func = <<>> /\ stages = <<>> /\ stored = <<>>

\* no command line is being worked through
NoMain == argv = <<>> /\ optind = 0 /\ out = <<>>

\* no call of get_entry_table is being followed
NoWalk == walk = <<>> /\ visits = <<>>

Init ==
    /\ InitEntry \/ InitNames \/ InitImports \/ InitSpecfiles
    /\ NoDemangle
    /\ NoMain
    /\ NoWalk

\* the stage begins with fseek(f, TableStart(stage, hdr), SEEK_SET)
Begun(stage, hdr) ==
    trace' = Append(trace, [stage |-> stage, seek |-> TableStart(stage, hdr)])

\* fread(&ne->header, sizeof(struct header_ne), 1, f)
ReadHeader ==
    /\ pc = "header"
    /\ header' = ReadHeaderAt(f, TableStart("header", header))
    /\ pc' = "enttab"
    /\ Begun("header", header)
    /\ heap' = heap
    /\ UNCHANGED <<input, f, opts, mode, fs, enttab, entcount, modname, description,
                   nametab, imptab, diag, stray, run, prev>>
    /\ UNCHANGED <<demangleVars, entryVars, mainVars>>

\* the state once get_entry_table returned r
EntryTableDone(r) ==
    /\ enttab' = r.enttab
    /\ entcount' = r.entcount
    /\ diag' = diag \o r.warns
    /\ pc' = IF r.status = "ok" THEN "restab"
             ELSE IF r.status = "hang" THEN "hang" ELSE "crashed"

\* get_entry_table(offset_ne + ne->header.ne_enttab, ne)
GetEntryTableStep ==
    /\ pc = "enttab"
    /\ EntryTableDone(GetEntryTable(f, TableStart("enttab", header)))
    /\ Begun("enttab", header)
    /\ heap' = Malloc(heap, <<"enttab">>)
    /\ UNCHANGED <<input, f, opts, mode, fs, header, modname, description, nametab,
                   imptab, stray, run, prev>>
    /\ UNCHANGED <<demangleVars, entryVars, mainVars>>

\* the state once read_res_name_table returned r, apart from its result
NamesDone(r, then) ==
    /\ enttab' = r.tab
    /\ diag' = diag \o r.warns
    /\ stray' = stray \o r.stray
    /\ pc' = IF r.status = "ok" THEN then ELSE "crashed"

ResidentDone(r) == modname' = r.first /\ NamesDone(r, "nrestab")

NonresidentDone(r) == description' = r.first /\ NamesDone(r, "nametab")

\* ne->name = read_res_name_table(offset_ne + ne->header.ne_restab, ne->enttab)
ReadResidentNames ==
    /\ pc = "restab"
    /\ \E ubCrash \in BOOLEAN :
        ResidentDone(ReadResNameTable(f, TableStart("restab", header), enttab,
                                      entcount, "DEMANGLE" \in opts, ubCrash))
    /\ Begun("restab", header)
    /\ heap' = NameBlocks(heap, "name", f, TableStart("restab", header))
    /\ UNCHANGED <<input, f, opts, mode, fs, header, entcount, description, nametab,
                   imptab, run, prev>>
    /\ UNCHANGED <<demangleVars, entryVars, mainVars>>

\* ne->description = read_res_name_table(ne->header.ne_nrestab, ne->enttab)
ReadNonresidentNames ==
    /\ pc = "nrestab"
    /\ \E ubCrash \in BOOLEAN :
        NonresidentDone(ReadResNameTable(f, TableStart("nrestab", header), enttab,
                                         entcount, "DEMANGLE" \in opts, ubCrash))
    /\ Begun("nrestab", header)
    /\ heap' = NameBlocks(heap, "description", f, TableStart("nrestab", header))
    /\ UNCHANGED <<input, f, opts, mode, fs, header, entcount, modname, nametab,
                   imptab, run, prev>>
    /\ UNCHANGED <<demangleVars, entryVars, mainVars>>

\* the import name blob: ne_enttab - ne_imptab bytes at ne_imptab
ReadImportNames ==
    /\ pc = "nametab"
    /\ nametab' = BytesAt(f, TableStart("nametab", header),
                          header.ne_enttab - header.ne_imptab)
    /\ pc' = "imptab"
    /\ Begun("nametab", header)
    /\ heap' = Malloc(heap, <<"nametab">>)
    /\ UNCHANGED <<input, f, opts, mode, fs, header, enttab, entcount, modname,
                   description, imptab, diag, stray, run, prev>>
    /\ UNCHANGED <<demangleVars, entryVars, mainVars>>

\* the state once get_import_module_table returned r
ImportTableDone(r) ==
    /\ imptab' = r.imptab
    /\ diag' = diag \o r.diag
    /\ pc' = IF r.status = "ok" THEN "dump" ELSE "crashed"

\* get_import_module_table(offset_ne + ne->header.ne_modtab, ne)
GetImportModuleTableStep ==
    /\ pc = "imptab"
    /\ \E ubCrash \in BOOLEAN :
        ImportTableDone(GetImportModuleTable(f, TableStart("imptab", header),
                            header.ne_cmod, nametab, "DISASSEMBLE" \in mode, fs,
                            "DEMANGLE" \in opts, ubCrash))
    /\ Begun("imptab", header)
    /\ heap' = ImportBlocks(heap, imptab')
    /\ UNCHANGED <<input, f, opts, mode, fs, header, enttab, entcount, modname,
                   description, nametab, stray, run, prev>>
    /\ UNCHANGED <<demangleVars, entryVars, mainVars>>

\* dumpne after readne: if (mode == SPECFILE) print_specfile(&ne)
Dump ==
    /\ pc = "dump"
    /\ fs' = IF mode = {"SPECFILE"} THEN PrintSpecfile(fs, modname, enttab, entcount)
             ELSE fs
    /\ pc' = "free"
    /\ UNCHANGED <<input, f, opts, mode, header, enttab, entcount, modname,
                   description, nametab, imptab, diag, stray, run, prev>>
    /\ UNCHANGED <<demangleVars, entryVars, mainVars, heap, trace>>

\* freene(&ne)
FreeNe ==
    /\ pc = "free"
    /\ heap' = FreeAll(heap, FreeWalk(entcount, imptab))
    /\ pc' = "done"
    /\ UNCHANGED <<input, f, opts, mode, fs, header, enttab, entcount, modname,
                   description, nametab, imptab, diag, stray, run, prev>>
    /\ UNCHANGED <<demangleVars, entryVars, mainVars, trace>>

\* a second invocation in the same directory, disassembling a module that
\* imports the module whose specfile the first invocation wrote
Restart ==
    /\ pc = "done"
    /\ run = 1
    /\ mode = {"SPECFILE"}
    /\ \E o \in SUBSET {"DEMANGLE"} : opts' = o
    /\ pc' = "header"
    /\ input' = Importer(modname)
    /\ f' = BuildFile(Importer(modname))
    /\ mode' = {"DISASSEMBLE"}
    /\ header' = <<>>
    /\ enttab' = <<>>
    /\ entcount' = 0
    /\ modname' = <<>>
    /\ description' = <<>>
    /\ nametab' = <<>>
    /\ imptab' = <<>>
    /\ diag' = <<>>
    /\ stray' = <<>>
    /\ run' = 2
    /\ prev' = [enttab |-> enttab, entcount |-> entcount, modname |-> modname]
    /\ heap' = <<>>
    /\ trace' = <<>>
    /\ UNCHANGED fs
    /\ UNCHANGED <<demangleVars, entryVars, mainVars>>

Next ==
    \/ ReadHeader
    \/ GetEntryTableStep
    \/ ReadResidentNames
    \/ ReadNonresidentNames
    \/ ReadImportNames
    \/ GetImportModuleTableStep
    \/ Dump
    \/ FreeNe
    \/ Restart

Spec == Init /\ [][Next]_vars

----------------------------------------------------------------------------
(* One name on its way through demangle: the table reader's test, then the *)
(* stages of demangle one after the other.  stages holds the decoding      *)
(* state after each stage run so far, its field p already moved past the   *)
(* characters the stage took.                                              *)

MaxComponents == 3
MaxDepth == 2

RECURSIVE JoinAt(_)
\* the components c1, ..., cn as c1@c2@...@cn
JoinAt(cs) ==
    IF Len(cs) = 1 THEN cs[1] ELSE cs[1] \o <<64>> \o JoinAt(Tail(cs))

\* the mangled prefix of the components: ?c1@c2@...@cn@@
Qualified(cs) == <<63>> \o JoinAt(cs) \o <<64, 64>>

Components == {Bytes("Foo"), Bytes("Bar"), Bytes("Baz")}

QualifiedNames ==
    {Qualified(cs) : cs \in SeqsUpTo(Components, MaxComponents) \ {<<>>}}

\* names of one to MaxComponents components, with and without a signature
NameFamily ==
    {q \o t : q \in QualifiedNames,
              t \in {Bytes("QAEXH@Z"), Bytes("YAHXZ"), Bytes("SAPADPBDH@Z"), <<>>}}

Protections ==
    {Bytes("A"), Bytes("Q"), Bytes("S"), Bytes("F"), Bytes("Y"), Bytes("Z"),
     Bytes("X1"), Bytes("Xab@"), Bytes("X"), Bytes("_V17"), Bytes("_Sab@"),
     Bytes("_"), Bytes("_$"), Bytes("!"), <<>>}

Sentinels == {Bytes("E"), Bytes("G"), <<>>}

Conventions == {Bytes("A"), Bytes("C"), Bytes("B")}

ReturnTypes == {Bytes("H"), Bytes("X"), Bytes("PAD"), Bytes("Upt@@"), Bytes("!")}

ParameterLists ==
    {Bytes("XZ"), Bytes("H@Z"), Bytes("Upt@@H@Z"), Bytes("Vt@H@Z"), Bytes("@Z"),
     Bytes("H!PAN@Z"), Bytes("HH"), <<>>}

\* signatures of every shape after the name f, the malformed ones included
SignatureFamily ==
    {Bytes("?f@@") \o p \o s \o c \o r \o a :
        p \in Protections, s \in Sentinels, c \in Conventions, r \in ReturnTypes,
        a \in ParameterLists}

\* the letter after 'A' or 'P': no bit, const, volatile, far, all three
Qualifiers == {65, 66, 67, 69, 72}

PointerCodes == {<<c, q>> : c \in {65, 80}, q \in Qualifiers}

BaseTypes == {Bytes("H"), Bytes("N"), Bytes("X"), Bytes("Upt@@"), Bytes("!")}

\* return types that are pointers and references nested up to MaxDepth deep
TypeFamily ==
    {Bytes("?f@@YA") \o Flatten(ps) \o b \o Bytes("H@Z") :
        ps \in SeqsUpTo(PointerCodes, MaxDepth), b \in BaseTypes}

\* names with no "@@"
NoSeparator == {Bytes("?"), Bytes("?f"), Bytes("?f@QAEXXZ")}

\* names that are not mangled
PlainNames == {Bytes("WEP"), Bytes("f@@YAHXZ"), Bytes("_f?@@"), <<>>}

\* names that end before a '@' their decoding looks for
Unterminated ==
    {Bytes("?f@@X"), Bytes("?f@@Xab"), Bytes("?f@@_"), Bytes("?f@@_Vab"),
     Bytes("?f@@YAUpt"), Bytes("?f@@YAHHH"), Bytes("?f@@QAEXPAD")}

\* the longest name a record of a name table holds: byte length
MaxName == 255

\* parameter lists of 63 and of 64 unsigned shorts: the longest rendering that
\* fits the work buffer, and the shortest of its kind that does not
LongLists ==
    {n \in {Bytes("?f@@YAX") \o [i \in 1..k |-> 71] \o Bytes("@Z") : k \in {63, 64}} :
        Len(n) <= MaxName}

Funcs ==
    NameFamily \cup SignatureFamily \cup TypeFamily \cup NoSeparator \cup Unterminated
    \cup PlainNames \cup LongLists

\* no module is being read
Unloaded ==
    /\ input = BaseInput
    /\ f = <<>>
    /\ fs = EmptyDir
    /\ header = <<>>
    /\ enttab = <<>>
    /\ entcount = 0
    /\ modname = <<>>
    /\ description = <<>>
    /\ nametab = <<>>
    /\ imptab = <<>>
    /\ stray = <<>>
    /\ run = 1
    /\ prev = NoPrev
    /\ heap = <<>>
    /\ trace = <<>>
    /\ NoWalk

\* a table reader holds the name func
DemangleInit ==
    /\ Unloaded
    /\ NoMain
    /\ pc = "name"
    /\ mode = {}
    /\ diag = <<>>
    /\ stages = <<>>
    /\ stored = <<>>
    /\ \E o \in SUBSET {"DEMANGLE"} : opts = o
    /\ \E s \in Funcs : func = s

\* the variables no stage of demangle writes
demangleFixed ==
    <<input, f, opts, mode, fs, header, enttab, entcount, modname, description,
      nametab, imptab, stray, run, prev, func, mainVars, heap, trace,
      entryVars>>

\* if ((opts & DEMANGLE) && name[0] == '?') name = demangle(name);
TakeName ==
    /\ pc = "name"
    /\ IF "DEMANGLE" \in opts /\ Ch(func, 1) = 63
       THEN pc' = "protection" /\ stored' = stored
       ELSE pc' = "stored" /\ stored' = Some(func)
    /\ UNCHANGED <<demangleFixed, stages, diag>>

\* the decoding state on entry to demangle, "@@" found at index sep
Blank(sep) ==
    [buf |-> <<>>, prot |-> 0, warns |-> <<>>, st |-> "ok", len |-> 0, p |-> sep + 2]

\* where demangle goes once a stage left d: on, or out of defined behaviour
After(d, next) ==
    IF d.st = "ok" THEN next ELSE IF d.st = "segv" THEN "crashed" ELSE "undefined"

\* the state once a stage left d
StageDone(d, next) ==
    /\ stages' = Append(stages, d)
    /\ diag' = d.warns
    /\ pc' = After(d, next)

\* demangle going on after demangle_protection returned 0
ProtectionDoneIgnoringZero(d) ==
    StageDone(Advance(d), IF d.len = WildLen THEN "crashed" ELSE "sentinel")

\* the state once demangle_protection returned d.len: if (!len) return func;
ProtectionDone(d) ==
    StageDone(Advance(d), IF d.len = 0 THEN "unchanged"
                          ELSE IF d.len = WildLen THEN "crashed" ELSE "sentinel")

\* p = strstr(func, "@@") + 2; len = demangle_protection(buffer, p, &prot, func);
StageProtection ==
    /\ pc = "protection"
    /\ IF FindAtAt(func, 1) = 0
       THEN pc' = "crashed" /\ UNCHANGED <<stages, diag>>
       ELSE ProtectionDone(DemangleProtection(func, FindAtAt(func, 1) + 2,
                                              Blank(FindAtAt(func, 1))))
    /\ UNCHANGED <<demangleFixed, stored>>

\* the decoding state the last stage left
Current == stages[Len(stages)]

\* if (prot >= 'A' && prot <= 'V' && !((prot-'A') & 2)) { ...; p++; }
StageSentinel ==
    /\ pc = "sentinel"
    /\ StageDone(Advance(Sentinel(func, Current)), "convention")
    /\ UNCHANGED <<demangleFixed, stored>>

\* the calling convention, and the p++ after it
StageConvention ==
    /\ pc = "convention"
    /\ StageDone(Advance(Convention(func, Current)), "rettype")
    /\ UNCHANGED <<demangleFixed, stored>>

\* len = demangle_type(buffer, p); ...; p += len;
StageReturnType ==
    /\ pc = "rettype"
    /\ StageDone(Advance(ReturnType(func, Current)), "classname")
    /\ UNCHANGED <<demangleFixed, stored>>

\* the class name, backwards from the first "@@"
StageClassName ==
    /\ pc = "classname"
    /\ StageDone(ClassName(func, FindAtAt(func, 1), Current), "arguments")
    /\ UNCHANGED <<demangleFixed, stored>>

\* the arguments
StageArguments ==
    /\ pc = "arguments"
    /\ StageDone(Arguments(func, Current), "return")
    /\ UNCHANGED <<demangleFixed, stored>>

\* return func; after demangle_protection returned 0
ReturnFunc ==
    /\ pc = "unchanged"
    /\ stored' = Some(func)
    /\ pc' = "stored"
    /\ UNCHANGED <<demangleFixed, stages, diag>>

\* func = realloc(func, ...); strcpy(func, buffer); return func;
ReturnBuffer ==
    /\ pc = "return"
    /\ stored' = Some(Current.buf)
    /\ pc' = "stored"
    /\ UNCHANGED <<demangleFixed, stages, diag>>

\* a decode that read or wrote outside its buffers: the process dies, or the
\* table reader stores whatever the decode produced
Undefined ==
    /\ pc = "undefined"
    /\ \E ubCrash \in BOOLEAN :
        IF ubCrash THEN pc' = "crashed" /\ stored' = stored
        ELSE pc' = "stored" /\ stored' = Some(Indeterminate)
    /\ UNCHANGED <<demangleFixed, stages, diag>>

DemangleNext ==
    \/ TakeName
    \/ StageProtection
    \/ StageSentinel
    \/ StageConvention
    \/ StageReturnType
    \/ StageClassName
    \/ StageArguments
    \/ ReturnFunc
    \/ ReturnBuffer
    \/ Undefined

DemangleSpec == DemangleInit /\ [][DemangleNext]_vars

----------------------------------------------------------------------------
(* main and dump_file of src/src/dump.c.  argv holds the arguments after   *)
(* the program name; what dumpne, dumppe and dumpmz print for a file is    *)
(* one entry of out.                                                       *)

MaxArgs == 3

OptionArgs == {"-C", "-d", "-e", "-f", "-i", "-o", "-x", "-h", "-q"}

\* the files of the command lines: one that cannot be opened, one that does
\* not start with MZ, an NE module, an NE module in a directory where no
\* specfile can be created
FileArgs == {"absent.exe", "notes.txt", "app.exe", "locked.exe"}

\* what dump_file finds under a name
Disk ==
    [n \in FileArgs |->
        IF n = "absent.exe" THEN [opens |-> FALSE, format |-> "none", writable |-> TRUE]
        ELSE IF n = "notes.txt" THEN [opens |-> TRUE, format |-> "none", writable |-> TRUE]
        ELSE IF n = "app.exe" THEN [opens |-> TRUE, format |-> "ne", writable |-> TRUE]
        ELSE [opens |-> TRUE, format |-> "ne", writable |-> FALSE]]

IsOption(a) == a \in OptionArgs

IsFile(a) == a \notin OptionArgs

\* the index of the first option of av at or after from, 0 for none
NextOption(av, from) ==
    LET hits == {i \in from..Len(av) : IsOption(av[i])}
    IN  IF hits = {} THEN 0 ELSE CHOOSE i \in hits : \A j \in hits : i <= j

\* argv as getopt_long leaves it: the options first, the other arguments
\* after them, each group in its order
Permuted(av) == SelectSeq(av, IsOption) \o SelectSeq(av, IsFile)

\* the cases of the switch that set a bit and break
ModeBit(opt) ==
    IF opt = "-d" THEN {"DISASSEMBLE"}
    ELSE IF opt = "-e" THEN {"DUMPEXPORT"}
    ELSE IF opt = "-f" THEN {"DUMPHEADER"}
    ELSE IF opt = "-i" THEN {"DUMPIMPORTMOD"}
    ELSE {}

\* the state once the body of the switch ran for opt
Switch(opt) ==
    /\ opts' = IF opt = "-C" THEN opts \cup {"DEMANGLE"} ELSE opts
    /\ mode' = IF opt = "-o" THEN {"SPECFILE"}
               ELSE IF opt = "-x"
               THEN mode \cup {"DUMPHEADER", "DUMPEXPORT", "DUMPIMPORTMOD"}
               ELSE mode \cup ModeBit(opt)
    /\ diag' = IF opt \in {"-x", "-q"} THEN Append(diag, [kind |-> "usage"]) ELSE diag
    /\ out' = IF opt = "-h" THEN out \o <<[what |-> "help"], [what |-> "return", code |-> 0]>>
              ELSE IF opt \in {"-x", "-q"} THEN Append(out, [what |-> "return", code |-> 1])
              ELSE out
    /\ pc' = IF opt \in {"-h", "-x", "-q"} THEN "exit" ELSE "getopt"

\* one pass of while ((opt = getopt_long(...)) >= 0) { switch (opt) ... }
GetOpt ==
    /\ pc = "getopt"
    /\ NextOption(argv, optind) # 0
    /\ Switch(argv[NextOption(argv, optind)])
    /\ optind' = NextOption(argv, optind) + 1
    /\ UNCHANGED <<input, f, fs, header, enttab, entcount, modname, description,
                   nametab, imptab, stray, run, prev, demangleVars, entryVars, argv, heap, trace>>

\* getopt_long returned -1: if (mode == 0) mode = ~0;
\* if (optind == argc) printf(help_message);
EndOptions ==
    /\ pc = "getopt"
    /\ NextOption(argv, optind) = 0
    /\ argv' = Permuted(argv)
    /\ optind' = Len(SelectSeq(argv, IsOption)) + 1
    /\ mode' = IF mode = {} THEN AllModes ELSE mode
    /\ out' = IF SelectSeq(argv, IsFile) = <<>>
              THEN out \o <<[what |-> "help"], [what |-> "return", code |-> 0]>>
              ELSE out
    /\ pc' = IF SelectSeq(argv, IsFile) = <<>> THEN "exit" ELSE "files"
    /\ UNCHANGED <<input, f, opts, fs, header, enttab, entcount, modname, description,
                   nametab, imptab, diag, stray, run, prev, demangleVars, entryVars, heap, trace>>

\* what dumpne leaves of print_specfile: nothing unless mode == SPECFILE
Specfile(file, m) ==
    IF m # {"SPECFILE"} THEN "none"
    ELSE IF Disk[file].writable THEN "written" ELSE "failed"

\* what dump_file(file) writes to stdout
FileOutput(file, m) ==
    IF ~Disk[file].opens THEN <<>>
    ELSE IF Disk[file].format = "none" THEN <<[what |-> "File", file |-> file]>>
    ELSE <<[what |-> "File", file |-> file],
           [what |-> "dumpne", file |-> file, mode |-> m,
            specfile |-> Specfile(file, m)]>>

\* what dump_file(file) writes to stderr
FileErrors(file, m) ==
    IF ~Disk[file].opens THEN <<[kind |-> "perror", file |-> file]>>
    ELSE IF Disk[file].format = "none" THEN <<[kind |-> "format", file |-> file]>>
    ELSE IF Specfile(file, m) = "failed" THEN <<[kind |-> "perror", file |-> file]>>
    ELSE <<>>

\* what main prints between two files, and its return after the last
Between(av, i) ==
    IF i < Len(av) THEN <<[what |-> "gap"]>> ELSE <<[what |-> "return", code |-> 0]>>

\* a loop that gives up at the first file that cannot be opened or is not
\* recognized
DumpFileUntilFailure ==
    /\ pc = "files"
    /\ optind <= Len(argv)
    /\ out' = out \o FileOutput(argv[optind], mode) \o Between(argv, optind)
    /\ diag' = diag \o FileErrors(argv[optind], mode)
    /\ optind' = optind + 1
    /\ pc' = IF optind < Len(argv) /\ FileErrors(argv[optind], mode) = <<>>
             THEN "files" ELSE "exit"
    /\ UNCHANGED <<input, f, opts, mode, fs, header, enttab, entcount, modname,
                   description, nametab, imptab, stray, run, prev, demangleVars, entryVars, argv,
                   heap, trace>>

\* one pass of while (optind < argc) { dump_file(argv[optind++]); ... }
DumpFile ==
    /\ pc = "files"
    /\ optind <= Len(argv)
    /\ out' = out \o FileOutput(argv[optind], mode) \o Between(argv, optind)
    /\ diag' = diag \o FileErrors(argv[optind], mode)
    /\ optind' = optind + 1
    /\ pc' = IF optind < Len(argv) THEN "files" ELSE "exit"
    /\ UNCHANGED <<input, f, opts, mode, fs, header, enttab, entcount, modname,
                   description, nametab, imptab, stray, run, prev, demangleVars, entryVars, argv,
                   heap, trace>>

\* main is entered with the arguments argv
MainInit ==
    /\ Unloaded
    /\ NoDemangle
    /\ pc = "getopt"
    /\ mode = {}
    /\ opts = {}
    /\ diag = <<>>
    /\ out = <<>>
    /\ optind = 1
    /\ \E av \in SeqsUpTo(OptionArgs \cup FileArgs, MaxArgs) : argv = av

MainNext == GetOpt \/ EndOptions \/ DumpFile

MainSpec == MainInit /\ [][MainNext]_vars

----------------------------------------------------------------------------
(* The entry table against the bundles it was decoded from                 *)

\* the ordinal slots of a bundle stream in stream order: for each the type of
\* its bundle and its record (none in a placeholder bundle)
SlotsOf(bundles) ==
    Flatten([b \in 1..Len(bundles) |->
                [j \in 1..bundles[b].count |->
                    [type |-> bundles[b].type,
                     rec  |-> IF bundles[b].type = 0 THEN <<>>
                              ELSE <<bundles[b].recs[j]>>]]])

\* the numeric fields the stream gives a slot
SlotFields(slot) ==
    IF slot.type = 0 THEN [flags |-> 0, segment |-> 0, offset |-> 0]
    ELSE IF slot.type = MovableType
    THEN [flags |-> slot.rec[1].flags, segment |-> slot.rec[1].segment,
          offset |-> slot.rec[1].offset]
    ELSE [flags |-> slot.rec[1].flags, segment |-> slot.type,
          offset |-> slot.rec[1].offset]

Fields(e) == [flags |-> e.flags, segment |-> e.segment, offset |-> e.offset]

BundleCounts(bundles) == [b \in 1..Len(bundles) |-> bundles[b].count]

\* get_entry_table has returned or stopped
EntryTableRead == pc \notin {"header", "enttab"}

\* the warnings get_entry_table wrote about ordinal k
InterruptWarnings(k) ==
    {i \in 1..Len(diag) : diag[i].kind = "interrupt" /\ diag[i].entry = k}

BadSignature(slot) == slot.type = MovableType /\ slot.rec[1].sig # InterruptSig

\* C1: once get_entry_table is done, the entry count is the sum of all bundle
\* counts, and index k-1 (ordinal k) holds the k-th ordinal slot of the stream
\* in stream order, whatever mix of fixed, movable and placeholder bundles
\* precedes it.
C1_OrdinalsSequential ==
    EntryTableRead =>
        /\ entcount = SumSeq(BundleCounts(input.bundles))
        /\ Len(enttab) = entcount
        /\ \A k \in 1..entcount :
            Fields(enttab[k]) = SlotFields(SlotsOf(input.bundles)[k])

\* C1 witness: a movable bundle decoded behind a two-slot placeholder bundle
C1_Witness ==
    /\ pc = "restab"
    /\ Len(input.bundles) = 2
    /\ input.bundles[1] = Placeholder(2)
    /\ input.bundles[2].type = MovableType
    /\ entcount = 4
    /\ enttab[3].segment # 0

\* C2: after get_entry_table every slot of a fixed bundle of type T has
\* segment T and the offset and flags of its own 3-byte record, every slot of
\* a placeholder bundle has segment, offset and flags zero and no name, and
\* the stream [2, 1, two records][1, 0][0] gives three entries, the first two
\* on segment 1 with their own offsets and the third with segment 0 and no name.
C2_FixedAndPlaceholderSlots ==
    pc = "restab" =>
        /\ \A k \in 1..Len(SlotsOf(input.bundles)) :
            LET slot == SlotsOf(input.bundles)[k]
            IN  /\ slot.type \in 1..254 =>
                    /\ enttab[k].segment = slot.type
                    /\ enttab[k].offset = slot.rec[1].offset
                    /\ enttab[k].flags = slot.rec[1].flags
                /\ slot.type = 0 => enttab[k] = ZeroEntry
        /\ input.bundles = ScenarioTable =>
            /\ entcount = 3
            /\ Len(enttab) = 3
            /\ enttab[1].segment = 1 /\ enttab[1].offset = 16
            /\ enttab[2].segment = 1 /\ enttab[2].offset = 513
            /\ enttab[3].segment = 0 /\ enttab[3].name = NoName

\* C2 witness: the three-entry scenario has been decoded
C2_Witness ==
    /\ pc = "restab"
    /\ input.bundles = ScenarioTable
    /\ Len(enttab) = 3

\* C3: a movable record whose signature is not 0x3fcd still has its flags,
\* segment byte and offset word stored in its ordinal's entry, exactly one
\* warning is written for it (none for any other slot), and every following
\* record and bundle is decoded.
C3_BadSignatureStillDecoded ==
    EntryTableRead =>
        \A k \in 1..Len(SlotsOf(input.bundles)) :
            LET slots == SlotsOf(input.bundles)
            IN  /\ BadSignature(slots[k]) =>
                    /\ k <= Len(enttab)
                    /\ Fields(enttab[k]) = SlotFields(slots[k])
                    /\ Cardinality(InterruptWarnings(k)) = 1
                    /\ entcount = Len(slots)
                    /\ \A j \in (k + 1)..Len(slots) :
                        j <= Len(enttab) /\ Fields(enttab[j]) = SlotFields(slots[j])
                /\ ~BadSignature(slots[k]) => InterruptWarnings(k) = {}

\* C3 witness: a bad-signature record decoded with records and a bundle after it
C3_Witness ==
    /\ pc = "restab"
    /\ Len(input.bundles) = 2
    /\ input.bundles[1] = Bundle(MovableType, <<BadMovable, GoodMovable>>)
    /\ input.bundles[2].type = 254
    /\ Len(diag) = 1
    /\ enttab[1].segment = 1

----------------------------------------------------------------------------
(* The names against the name tables they were read from                   *)

\* the resident table has been decoded to its end
ResidentRead == pc \in {"nrestab", "nametab", "imptab", "dump", "free"}

\* both name tables have been decoded to their ends
NonresidentRead == pc \in {"nametab", "imptab", "dump", "free"}

\* the records decoded so far, in the order they were read
RecordsRead ==
    IF NonresidentRead THEN input.res.recs \o input.nres.recs
    ELSE IF ResidentRead THEN input.res.recs
    ELSE <<>>

\* the records of recs that name ordinal k
Naming(recs, k) == {i \in 1..Len(recs) : recs[i].ord = k}

\* the last of a non-empty set of record indices
LastOf(hits) == CHOOSE i \in hits : \A j \in hits : j <= i

\* the string is attached as it is: demangling is off or it has no '?' marker
KeptRaw(name) == "DEMANGLE" \notin opts \/ Ch(name, 1) # 63

InRange(recs) == \A i \in 1..Len(recs) : recs[i].ord >= 1 /\ recs[i].ord <= entcount

\* C4: after a name table is decoded to its end, every entry whose ordinal is
\* named by a record has a name, the one of the last record naming it; that
\* name is the record's string byte for byte when demangling is off or the
\* string does not start with '?'; and an entry no record names has its name
\* unchanged (no name).
C4_NamesAttachedByOrdinal ==
    ResidentRead =>
        \A k \in 1..entcount :
            IF Naming(RecordsRead, k) = {} THEN enttab[k].name = NoName
            ELSE /\ enttab[k].name # NoName
                 /\ KeptRaw(RecordsRead[LastOf(Naming(RecordsRead, k))].name) =>
                        enttab[k].name =
                            Some(RecordsRead[LastOf(Naming(RecordsRead, k))].name)

\* C4 witness: two resident records and a nonresident one attached, one ordinal
\* left unnamed
C4_Witness ==
    /\ pc = "nametab"
    /\ input.bundles = ScenarioTable
    /\ input.res.recs = <<[name |-> Bytes("A"), ord |-> 1], [name |-> Bytes("Bc"), ord |-> 2]>>
    /\ input.nres.recs = <<[name |-> MangledG, ord |-> 3]>>
    /\ "DEMANGLE" \notin opts
    /\ enttab[1].name = Some(Bytes("A"))
    /\ enttab[2].name = Some(Bytes("Bc"))
    /\ enttab[3].name = Some(MangledG)

\* C5: the string read_res_name_table returns is the first record's string: the
\* module name after the resident table and the description after the
\* nonresident table.  A first record of length zero gives the empty string and
\* no error: the 2-byte field is still skipped and the records after it are
\* walked and attached.
C5_FirstRecordReturned ==
    /\ ResidentRead => modname = input.res.first
    /\ NonresidentRead => description = input.nres.first
    /\ ResidentRead /\ input.res.first = <<>> =>
        /\ modname = <<>>
        /\ \A i \in 1..Len(input.res.recs) :
            input.res.recs[i].ord \in 1..entcount =>
                enttab[input.res.recs[i].ord].name # NoName
    /\ NonresidentRead /\ input.nres.first = <<>> =>
        /\ description = <<>>
        /\ \A i \in 1..Len(input.nres.recs) :
            input.nres.recs[i].ord \in 1..entcount =>
                enttab[input.nres.recs[i].ord].name # NoName
    /\ /\ input.modrefs = <<>>
       /\ input.res.first = <<>> \/ input.nres.first = <<>>
       /\ pc \notin {"header", "enttab"}
       /\ InRange(input.res.recs) /\ InRange(input.nres.recs)
       => pc # "crashed"

\* C5 witness: both tables start with a zero-length record and the records
\* behind them were attached
C5_Witness ==
    /\ pc = "nametab"
    /\ input.res.first = <<>>
    /\ input.nres.first = <<>>
    /\ modname = <<>>
    /\ description = <<>>
    /\ input.res.recs = <<[name |-> Bytes("Bc"), ord |-> 3]>>
    /\ input.nres.recs = <<[name |-> Bytes("D"), ord |-> 2]>>
    /\ enttab[3].name = Some(Bytes("Bc"))
    /\ enttab[2].name = Some(Bytes("D"))

----------------------------------------------------------------------------
(* The import module table against the module-reference table and the      *)
(* files of the working directory                                          *)

\* get_import_module_table has returned
ImportsRead == pc \in {"dump", "free"}

\* the i-th 2-byte entry of the module-reference table
ModRef(i) == WordAt(f, OffsetNE + header.ne_modtab + 2 * (i - 1))

\* the length-prefixed string of the blob at offset
PrefixedString(blob, offset) == SubSeq(blob, offset + 2, offset + 1 + blob[offset + 1])

\* C6: get_import_module_table leaves exactly ne_cmod records, the i-th one for
\* the i-th entry of the module-reference table, its name the length-prefixed
\* string of the import-name blob at that entry's offset.
C6_ImportModulesInTableOrder ==
    ImportsRead =>
        /\ Len(imptab) = header.ne_cmod
        /\ Len(imptab) = Len(input.modrefs)
        /\ \A i \in 1..Len(imptab) :
            /\ imptab[i].name = PrefixedString(nametab, ModRef(i))
            /\ imptab[i].name = input.blobnames[input.modrefs[i]]

\* C6 witness: two modules read in table order from different blob offsets
C6_Witness ==
    /\ pc = "dump"
    /\ input.modrefs = <<3, 1>>
    /\ Len(imptab) = 2
    /\ imptab[1].name = Bytes("LONGNAME9")
    /\ imptab[2].name = Bytes("K")
    /\ ModRef(1) > ModRef(2)

NoExports(m) == m.exports = <<>> /\ m.export_count = 0

\* neither of the two specfile names of the module is a file
NoSpecfile(name) == SpecName(name) \notin DOMAIN fs /\ SpecDirName(name) \notin DOMAIN fs

\* the modules the missing-specfile notes name, in the order written
NotedModules ==
    LET notes == SelectSeq(diag, LAMBDA d : d.kind = "nospecfile")
    IN  [i \in 1..Len(notes) |-> notes[i].module]

\* the names of the modules of the table that have no specfile, in table order
MissingModules ==
    LET missing == SelectSeq(imptab, LAMBDA m : NoSpecfile(m.name))
    IN  [i \in 1..Len(missing) |-> missing[i].name]

\* C7, as amended: with <NAME> the first 8 bytes of the module's name, a
\* module's export list is absent with count 0 whenever DISASSEMBLE is clear
\* (and no file is looked for), and whenever it is set but neither <NAME>.ORD
\* nor spec/<NAME>.ORD is a file; <NAME>.ORD is tried first; each module without
\* a specfile is noted once, in table order, and the walk goes on over every
\* remaining entry, which gets its export list when it has a specfile.
C7_NoSpecfileNoExports ==
    pc = "dump" =>
        /\ "DISASSEMBLE" \notin mode =>
            /\ \A i \in 1..Len(imptab) : NoExports(imptab[i])
            /\ NotedModules = <<>>
        /\ "DISASSEMBLE" \in mode =>
            /\ Len(imptab) = Len(input.modrefs)
            /\ NotedModules = MissingModules
            /\ \A i \in 1..Len(imptab) :
                /\ NoSpecfile(imptab[i].name) => NoExports(imptab[i])
                /\ ~NoSpecfile(imptab[i].name) =>
                    /\ imptab[i].exports # <<>>
                    /\ imptab[i].export_count = Len(imptab[i].exports[1])
                /\ SpecName(imptab[i].name) \in DOMAIN fs
                   /\ fs[SpecName(imptab[i].name)] = TextA =>
                        imptab[i].exports =
                            <<(<<[ordinal |-> 1, name |-> Some(Bytes("A"))]>>)>>
                /\ SpecName(imptab[i].name) \notin DOMAIN fs
                   /\ SpecDirName(imptab[i].name) \in DOMAIN fs
                   /\ fs[SpecDirName(imptab[i].name)] = TextB =>
                        imptab[i].exports = <<(<<[ordinal |-> 7, name |-> NoName]>>)>>

\* C7 witness: a module without a specfile, noted, followed by a module whose
\* two specfiles both exist and whose exports come from the working directory
C7_Witness ==
    /\ pc = "dump"
    /\ "DISASSEMBLE" \in mode
    /\ input.modrefs = <<2, 1>>
    /\ Bytes("K.ORD") \in DOMAIN fs
    /\ Bytes("spec/K.ORD") \in DOMAIN fs
    /\ NoExports(imptab[1])
    /\ NotedModules = <<Bytes("USER")>>
    /\ imptab[2].export_count = 1
    /\ imptab[2].exports[1][1].ordinal = 1

\* C7 as stated, <NAME> being the module's name: a module for which neither
\* <NAME>.ORD nor spec/<NAME>.ORD is a file has no exports.
C7_AsStated ==
    pc = "dump" /\ "DISASSEMBLE" \in mode =>
        \A i \in 1..Len(imptab) :
            /\ (imptab[i].name \o StrOrd) \notin DOMAIN fs
            /\ (StrSpecDir \o imptab[i].name \o StrOrd) \notin DOMAIN fs
            => NoExports(imptab[i])

----------------------------------------------------------------------------
(* The export list against the text of the specfile                        *)

RECURSIVE SplitLines(_)
\* the lines of a text, without their newlines
SplitLines(text) ==
    IF text = <<>> THEN <<>>
    ELSE IF FindChar(text, 1, NL) = 0 THEN <<text>>
    ELSE <<SubSeq(text, 1, FindChar(text, 1, NL) - 1)>>
         \o SplitLines(SubSeq(text, FindChar(text, 1, NL) + 1, Len(text)))

RECURSIVE LeadingNumber(_, _)
\* the value of the decimal digits a line starts with, acc so far
LeadingNumber(line, acc) ==
    IF line # <<>> /\ IsDigit(Head(line))
    THEN LeadingNumber(Tail(line), 10 * acc + (Head(line) - 48))
    ELSE acc

IsComment(line) == line = <<>> \/ Head(line) = 35

HasOrdinal(line) == line # <<>> /\ IsDigit(Head(line))

\* the record a line with a leading ordinal stands for
RecordOf(line) ==
    [ordinal |-> LeadingNumber(line, 0),
     name    |-> IF FindChar(line, 1, TAB) = 0 THEN NoName
                 ELSE Some(SubSeq(line, FindChar(line, 1, TAB) + 1, Len(line)))]

\* the export list the lines of a text stand for, in file order
RecordsOf(text) ==
    LET lines == SelectSeq(SplitLines(text), LAMBDA l : ~IsComment(l) /\ HasOrdinal(l))
    IN  [i \in 1..Len(lines) |-> RecordOf(lines[i])]

\* the lines that are neither comments nor blank and have no leading ordinal
BadLines(text) == SelectSeq(SplitLines(text), LAMBDA l : ~IsComment(l) /\ ~HasOrdinal(l))

\* the lines the specfile diagnostics name, in the order written
ReportedLines ==
    LET notes == SelectSeq(diag, LAMBDA d : d.kind = "specfile")
    IN  [i \in 1..Len(notes) |-> notes[i].line]

\* a text whose lines start with neither white space nor a sign and whose
\* ordinals fit 16 bits
PlainText(text) ==
    \A i \in 1..Len(SplitLines(text)) :
        LET l == SplitLines(text)[i]
        IN  l = <<>> \/ (~IsSpace(Head(l)) /\ Head(l) \notin {43, 45}
                         /\ LeadingNumber(l, 0) < 65536)

\* the module K.ORD was loaded for, with demangling off
LoadedPlain ==
    /\ pc = "dump"
    /\ run = 1
    /\ input.modrefs = <<1>>
    /\ "DISASSEMBLE" \in mode
    /\ "DEMANGLE" \notin opts
    /\ Bytes("K.ORD") \in DOMAIN fs
    /\ PlainText(fs[Bytes("K.ORD")])

\* C8 as stated: comment and blank lines give nothing, a line without a leading
\* ordinal is reported and skipped, every other line gives exactly one record
\* with the leading number as ordinal and the text after the first tab as name
\* (none without a tab), in file order, and export_count counts the records.
C8_AsStated ==
    LoadedPlain =>
        /\ imptab[1].exports = <<RecordsOf(fs[Bytes("K.ORD")])>>
        /\ imptab[1].export_count = Len(RecordsOf(fs[Bytes("K.ORD")]))
        /\ ReportedLines = BadLines(fs[Bytes("K.ORD")])

\* C8 on the lines that fit the 300-byte line buffer
C8_ShortLines ==
    LoadedPlain /\ (\A i \in 1..Len(SplitLines(fs[Bytes("K.ORD")])) :
                       Len(SplitLines(fs[Bytes("K.ORD")])[i]) < LineSize - 1) =>
        /\ imptab[1].exports = <<RecordsOf(fs[Bytes("K.ORD")])>>
        /\ imptab[1].export_count = Len(RecordsOf(fs[Bytes("K.ORD")]))
        /\ ReportedLines = BadLines(fs[Bytes("K.ORD")])

----------------------------------------------------------------------------
(* The specfile written against the entry table, and read back             *)

\* the line of ordinal k of a table for an entry with a segment: the ordinal,
\* and a tab and the name if the entry has one
OrdinalLine(k, e) ==
    IF e.name # NoName THEN DecStr(k) \o <<TAB>> \o e.name[1] \o <<NL>>
    ELSE DecStr(k) \o <<NL>>

\* the specfile of a table: the comment line, then a line for every ordinal
\* whose entry has a segment, in increasing order
SegmentLines(tab, count) ==
    StrGenerated \o <<NL>>
    \o Flatten([k \in 1..count |-> IF tab[k].segment = 0 THEN <<>>
                                   ELSE OrdinalLine(k, tab[k])])

\* dumpne -o has written the specfile of the module
SpecfileWritten == pc = "free" /\ run = 1 /\ mode = {"SPECFILE"}

\* C9 as stated: the specfile holds, after the comment line, one line per
\* ordinal in increasing order, the ordinal with a tab and the name if the
\* entry has a name and the bare ordinal otherwise, and no line for an ordinal
\* whose entry has segment 0.
C9_AsStated ==
    SpecfileWritten =>
        /\ SpecName(modname) \in DOMAIN fs
        /\ fs[SpecName(modname)] = SegmentLines(enttab, entcount)

\* the ordinal-to-name mapping of an export list
ExportMapping(exports) ==
    {<<exports[i].ordinal, exports[i].name>> : i \in 1..Len(exports)}

\* the ordinal-to-name mapping of an entry table on the ordinals with a segment
SegmentMapping(tab, count) ==
    {<<k, tab[k].name>> : k \in {j \in 1..count : tab[j].segment # 0}}

\* the specfile the first run wrote has been read back by a run without
\* demangling
ReadBack ==
    /\ pc = "dump"
    /\ run = 2
    /\ opts = {}
    /\ Len(imptab) = 1
    /\ imptab[1].exports # <<>>

\* C10 as stated: the export list read back from the specfile written for an
\* entry table maps ordinals to names as the entry table does on the ordinals
\* with a non-zero segment, and has no other ordinal.
C10_AsStated ==
    ReadBack =>
        /\ ExportMapping(imptab[1].exports[1]) = SegmentMapping(prev.enttab, prev.entcount)
        /\ imptab[1].export_count = Cardinality(SegmentMapping(prev.enttab, prev.entcount))

----------------------------------------------------------------------------
(* demangle against the names it is given                                  *)

\* the index of the character after the first "@@" of func
AfterSeparator == FindAtAt(func, 1) + 2

\* func has a "@@" and the character after it opens no protection form
FailsAtProtection ==
    /\ FindAtAt(func, 1) # 0
    /\ ~(Ch(func, AfterSeparator) >= 65 /\ Ch(func, AfterSeparator) <= 86)
    /\ Ch(func, AfterSeparator) \notin {88, 89, 90}
    /\ ~(Ch(func, AfterSeparator) = 95 /\ Ch(func, AfterSeparator + 1) # 36)

\* C11: a name that does not start with '?' never enters demangle and is
\* stored unchanged, the demangle option on or off; a name whose character
\* after the first "@@" opens no protection form leaves demangle at the
\* protection stage and is stored as the identical string.
C11_IdempotentOnFailure ==
    /\ Ch(func, 1) # 63 =>
        /\ pc \in {"name", "stored"}
        /\ stages = <<>>
        /\ pc = "stored" => stored = Some(func)
    /\ Ch(func, 1) = 63 /\ FailsAtProtection =>
        /\ pc \in {"name", "protection", "unchanged", "stored"}
        /\ Len(stages) <= 1
        /\ pc = "stored" => stored = Some(func)

\* a mangled name with the demangle option on came back from the protection
\* stage as it went in
C11_Witness ==
    /\ pc = "stored"
    /\ "DEMANGLE" \in opts
    /\ Ch(func, 1) = 63
    /\ FailsAtProtection
    /\ Len(stages) = 1
    /\ Len(func) > AfterSeparator
    /\ stored = Some(func)

\* C12: for every name that starts with '?', demangle ends inside defined
\* behaviour, having read only characters of the name, and the name stored is
\* a rendered signature or the name as it was; the process never dies.
C12_AsStated ==
    Ch(func, 1) = 63 =>
        /\ pc \notin {"crashed", "undefined"}
        /\ stored # Some(Indeterminate)
        /\ \A i \in 1..Len(stages) : stages[i].st = "ok" /\ stages[i].p # WildLen

RECURSIVE SplitAt(_)
\* the components of c1@c2@...@cn
SplitAt(s) ==
    IF FindChar(s, 1, 64) = 0 THEN <<s>>
    ELSE <<SubSeq(s, 1, FindChar(s, 1, 64) - 1)>>
         \o SplitAt(SubSeq(s, FindChar(s, 1, 64) + 1, Len(s)))

RECURSIVE Scoped(_)
\* the components c1, ..., cn as cn::...::c2::c1
Scoped(cs) ==
    IF Len(cs) = 1 THEN cs[1] ELSE Scoped(Tail(cs)) \o Bytes("::") \o cs[1]

\* the name the prefix ?c1@c2@...@cn@@ of func stands for
ScopedName == Scoped(SplitAt(SubSeq(func, 2, FindAtAt(func, 1) - 1)))

\* the decode of func has run its class name stage
NameRendered == Len(stages) >= 5 /\ stages[5].st = "ok"

\* the text the class name stage added to the work buffer
NamePart == SubSeq(stages[5].buf, Len(stages[4].buf) + 1, Len(stages[5].buf))

\* the parameter list is (void) or holds a parameter
ListedParameters == Ch(func, stages[5].p) # 64

\* C13: for a name whose prefix before the first "@@" is ?c1@c2@...@cn, the
\* class name stage of demangle appends exactly cn::...::c2::c1 to what the
\* earlier stages rendered, and the signature demangle returns holds that
\* name followed by '(' wherever its parameter list is (void) or lists a
\* parameter; for ?Foo@Bar@Baz@@ the name is exactly Baz::Bar::Foo.
C13_QualifiedName ==
    /\ NameRendered =>
        /\ stages[5].buf = stages[4].buf \o ScopedName
        /\ Len(func) >= 14 /\ SubSeq(func, 1, 14) = Bytes("?Foo@Bar@Baz@@") =>
               NamePart = Bytes("Baz::Bar::Foo")
    /\ pc = "stored" /\ Len(stages) = 6 /\ stages[6].st = "ok" /\ ListedParameters =>
        SubSeq(stored[1], 1, Len(stages[5].buf) + 1)
            = stages[4].buf \o ScopedName \o Bytes("(")

C13_Witness ==
    /\ pc = "stored"
    /\ func = Bytes("?Foo@Bar@Baz@@QAEXH@Z")
    /\ NameRendered
    /\ NamePart = Bytes("Baz::Bar::Foo")
    /\ stored = Some(Bytes("near public void Baz::Bar::Foo(int)"))

----------------------------------------------------------------------------
(* freene against the blocks allocated while the module was read           *)

\* C14: once freene has returned, every block allocated while the module was
\* read has been released exactly once.
C14_AsStated ==
    pc = "done" => \A i \in DOMAIN heap : heap[i].freed = 1

----------------------------------------------------------------------------
(* The stages of readne against the layout of the input file               *)

StageOrder == <<"header", "enttab", "restab", "nrestab", "nametab", "imptab">>

\* where the file built from the input holds the table a stage reads
TableAt(stage) ==
    IF stage = "header" THEN OffsetNE
    ELSE IF stage = "enttab" THEN OffsetNE + Layout(input).ne_enttab
    ELSE IF stage = "restab" THEN OffsetNE + Layout(input).ne_restab
    ELSE IF stage = "nrestab" THEN Layout(input).ne_nrestab
    ELSE IF stage = "nametab" THEN OffsetNE + Layout(input).ne_imptab
    ELSE OffsetNE + Layout(input).ne_modtab

\* the length of the import name blob in the file
BlobLengthInFile == Layout(input).ne_enttab - Layout(input).ne_imptab

\* C15: the stages of readne begin in the order header, entry table,
\* resident names, nonresident names, import name blob, import module table,
\* each with an absolute seek to the offset of the header plus the header's
\* field for the table, the nonresident names with a seek to ne_nrestab
\* itself; no entry has a name before the entry array is complete and the
\* resident stage has begun, and no import module is named before the blob
\* of ne_enttab - ne_imptab bytes is read.
C15_StagesInOrder ==
    /\ Len(trace) <= Len(StageOrder)
    /\ \A k \in DOMAIN trace :
        /\ trace[k].stage = StageOrder[k]
        /\ trace[k].seek = TableAt(StageOrder[k])
    /\ Len(trace) < 3 => \A k \in DOMAIN enttab : enttab[k].name = NoName
    /\ Len(trace) >= 3 => Len(enttab) = entcount
    /\ Len(trace) >= 5 =>
        nametab = BytesAt(f, TableAt("nametab"), BlobLengthInFile)
    /\ Len(trace) < 6 => imptab = <<>>

\* the six stages have run on a module that imports a module, the
\* nonresident names sought at ne_nrestab itself
C15_Witness ==
    /\ pc = "dump"
    /\ Len(trace) = 6
    /\ trace[4].seek # OffsetNE + header.ne_nrestab
    /\ imptab # <<>>
    /\ Len(nametab) > 0

----------------------------------------------------------------------------
(* main against its command line                                           *)

\* the file arguments, in command-line order
Files == SelectSeq(argv, IsFile)

\* main is in, or returned from, its loop over the files
Dumping ==
    \/ pc = "files"
    \/ /\ pc = "exit"
       /\ \A k \in DOMAIN out :
              out[k].what # "help" /\ out[k] # [what |-> "return", code |-> 1]

\* the files dump_file has been called on
Processed == SubSeq(Files, 1, optind - 1 - Len(SelectSeq(argv, IsOption)))

Opens(file) == Disk[file].opens

IsModule(file) == Disk[file].opens /\ Disk[file].format = "ne"

\* the file is missing, not recognized, or its specfile cannot be created
Fails(file) ==
    \/ ~Disk[file].opens
    \/ Disk[file].format = "none"
    \/ mode = {"SPECFILE"} /\ ~Disk[file].writable

IsFileLine(e) == e.what = "File"

IsDump(e) == e.what = "dumpne"

IsFileError(e) == e.kind \in {"perror", "format"}

FileOf(es) == [k \in DOMAIN es |-> es[k].file]

\* C16: once the options are accepted, main calls dump_file on every file
\* argument in command-line order; a file that cannot be opened, is not
\* recognized or whose specfile cannot be created gets its one message, and
\* every file that opens is announced and every module dumped, whatever
\* happened to the files before it.
C16_EveryFileProcessed ==
    Dumping =>
        /\ pc = "exit" => Processed = Files
        /\ FileOf(SelectSeq(out, IsFileLine)) = SelectSeq(Processed, Opens)
        /\ FileOf(SelectSeq(out, IsDump)) = SelectSeq(Processed, IsModule)
        /\ FileOf(SelectSeq(diag, IsFileError)) = SelectSeq(Processed, Fails)

\* a module dumped after a file that could not be opened and one that was not
\* recognized
C16_Witness ==
    /\ pc = "exit"
    /\ Dumping
    /\ Files = <<"absent.exe", "notes.txt", "app.exe">>
    /\ FileOf(SelectSeq(out, IsDump)) = <<"app.exe">>
    /\ Len(diag) = 2

\* the options main takes and goes on from
Continuing == {"-C", "-d", "-e", "-f", "-i", "-o", "-x"}

\* C17: on a command line with -x among options main goes on from, once
\* main has returned the mode holds the header, export and imported-module
\* bits, the arguments after -x were parsed, and every file listed was
\* dumped.
C17_AsStated ==
    /\ pc = "exit"
    /\ \E k \in DOMAIN argv : argv[k] = "-x"
    /\ \A k \in DOMAIN argv : IsOption(argv[k]) => argv[k] \in Continuing
    /\ Files # <<>>
    => /\ {"DUMPHEADER", "DUMPEXPORT", "DUMPIMPORTMOD"} \subseteq mode
       /\ optind = Len(argv) + 1
       /\ FileOf(SelectSeq(out, IsFileLine)) = SelectSeq(Files, Opens)
       /\ out[Len(out)] = [what |-> "return", code |-> 0]

----------------------------------------------------------------------------
(* demangle_type against the type codes of the return type                 *)

\* the index of the return type code of func, once the convention is decoded
TypeAt == stages[3].p

\* the return type stage of the decode of func has run inside defined behaviour
TypeDecoded == Len(stages) >= 4 /\ stages[4].st = "ok" /\ stages[4].p # WildLen

\* the terminator of the named type at TypeAt is a double '@'
DoubleTerminator == FindAtAt(func, TypeAt) # 0

\* the index of the terminator of the named type at TypeAt
TerminatorAt ==
    IF DoubleTerminator THEN FindAtAt(func, TypeAt) ELSE FindChar(func, TypeAt, 64)

\* C18: for a return type 'U' or 'V', demangle_type appends the characters
\* between the marker and the terminator and one space, and the decode goes
\* on at the first character after the terminator.
C18_AsStated ==
    TypeDecoded /\ Ch(func, TypeAt) \in {85, 86} =>
        /\ stages[4].buf
             = stages[3].buf \o SubSeq(func, TypeAt + 1, TerminatorAt - 1) \o Bytes(" ")
        /\ stages[4].p = TerminatorAt + (IF DoubleTerminator THEN 2 ELSE 1)

\* what holds of it: the text is appended, and the decode goes on at the
\* terminator itself
C18_StopsAtTerminator ==
    TypeDecoded /\ Ch(func, TypeAt) \in {85, 86} =>
        /\ stages[4].buf
             = stages[3].buf \o SubSeq(func, TypeAt + 1, TerminatorAt - 1) \o Bytes(" ")
        /\ stages[4].p = TerminatorAt

RECURSIVE PointerDepth(_, _)
\* how many 'A' and 'P' codes are nested from index i of s on
PointerDepth(s, i) ==
    IF Ch(s, i) = 65 \/ Ch(s, i) = 80 THEN 1 + PointerDepth(s, i + 2) ELSE 0

\* bit n of the character c minus 'A'
HasBit(c, n) == ((c - 65) \div (2 ^ n)) % 2 = 1

\* demangle_type(buffer, func + i - 1) on an empty buffer
Decoded(i) == DemangleType(func, i, Blank(0))

\* the pointer or reference at index i of func renders as its qualifiers, its
\* pointee, near unless far, then & or *, and counts 2 more than its pointee
PointerRendered(i) ==
    /\ Decoded(i).buf
         = (IF HasBit(Ch(func, i + 1), 0) THEN Bytes("const ") ELSE <<>>)
           \o (IF HasBit(Ch(func, i + 1), 1) THEN Bytes("volatile ") ELSE <<>>)
           \o Decoded(i + 2).buf
           \o (IF HasBit(Ch(func, i + 1), 2) THEN <<>> ELSE Bytes("near "))
           \o (IF Ch(func, i) = 65 THEN Bytes("&") ELSE Bytes("*"))
    /\ Decoded(i).len = 2 + Decoded(i + 2).len

\* C19: a return type 'A' or 'P' is appended as const if bit 0 of the next
\* character minus 'A' is set, volatile if bit 1 is set, the decoded pointee,
\* near unless bit 2 is set, then & for 'A' and * for 'P', and takes 2
\* characters more than its pointee; so does every pointer or reference nested
\* in it.
C19_PointerTypes ==
    TypeDecoded /\ Ch(func, TypeAt) \in {65, 80} =>
        /\ stages[4].buf = stages[3].buf \o Decoded(TypeAt).buf
        /\ stages[4].p = TypeAt + Decoded(TypeAt).len
        /\ \A j \in 0..(PointerDepth(func, TypeAt) - 1) : PointerRendered(TypeAt + 2 * j)

\* a const near pointer to a far pointer to int
C19_Witness ==
    /\ pc = "stored"
    /\ func = Bytes("?f@@YAPBPEHH@Z")
    /\ TypeDecoded
    /\ PointerDepth(func, TypeAt) = 2
    /\ stages[4].buf = Bytes("near const int *near *")
    /\ stages[4].p = TypeAt + 5
    /\ stored = Some(Bytes("near const int *near *f(int)"))

----------------------------------------------------------------------------
(* The sentinel stage against the protection of the name                   *)

\* the protection byte the form at index i of func records: the letter
\* itself, 'V' for an 'X' form, that of the inner form for a '_' form, none
\* for 'Y' and 'Z'
RECURSIVE Protection(_)
Protection(i) ==
    IF Ch(func, i) >= 65 /\ Ch(func, i) <= 86 THEN Ch(func, i)
    ELSE IF Ch(func, i) = 88 THEN 86
    ELSE IF Ch(func, i) = 95 /\ Ch(func, i + 1) # 36 /\ i <= Len(func)
    THEN Protection(i + 1)
    ELSE 0

\* the protection byte denotes a member that is not static
NonStatic(c) == c >= 65 /\ c <= 86 /\ ~HasBit(c, 1)

\* the sentinel stage of the decode of func has run
SentinelRun == Len(stages) >= 2

\* the character the sentinel stage looks at
SentinelChar == Ch(func, stages[1].p)

\* C20: after the protection stage demangle takes exactly one further
\* character if and only if the protection byte recorded is a letter 'A' to
\* 'V' with bit 1 of letter - 'A' clear, the 'V' recorded for an 'X' form
\* included; a character other than 'E' and 'F' there gets one diagnostic and
\* the decode goes on; for a static member and for 'Y' and 'Z' no character
\* is taken and nothing is reported.
C20_SentinelConsumed ==
    SentinelRun =>
        /\ stages[1].prot = Protection(AfterSeparator)
        /\ stages[2].prot = stages[1].prot
        /\ stages[2].buf = stages[1].buf
        /\ stages[2].st = "ok"
        /\ IF NonStatic(stages[1].prot)
           THEN /\ stages[2].p = stages[1].p + 1
                /\ stages[2].warns
                     = stages[1].warns
                       \o (IF SentinelChar \in {69, 70} THEN <<>>
                           ELSE <<[kind |-> "modifier", ch |-> SentinelChar]>>)
           ELSE /\ stages[2].p = stages[1].p
                /\ stages[2].warns = stages[1].warns

\* a public near member whose sentinel 'E' is taken without a word, then its
\* convention, return type and parameters
C20_Witness ==
    /\ pc = "stored"
    /\ func = Bytes("?f@@QEAHXZ")
    /\ SentinelRun
    /\ NonStatic(stages[1].prot)
    /\ stages[2].p = stages[1].p + 1
    /\ diag = <<>>
    /\ stored = Some(Bytes("near public int f(void)"))

----------------------------------------------------------------------------
(* The arguments stage against the type codes of the parameter list        *)

\* the index of the first character of the parameter list of func
ListAt == stages[5].p

\* the arguments stage of the decode of func has run inside defined behaviour
ListDecoded == Len(stages) = 6 /\ stages[6].st = "ok"

RECURSIVE TypeLen(_)
\* the characters the type code at index i of func is made of, 0 for a
\* character that is no type code: one for a basic type, two more than its
\* pointee for a pointer or reference, a named type through its terminator
TypeLen(i) ==
    IF Ch(func, i) \in (67..75) \cup {77, 78, 88} THEN 1
    ELSE IF Ch(func, i) \in {65, 80} THEN 2 + TypeLen(i + 2)
    ELSE IF Ch(func, i) \in {85, 86} THEN
        IF FindAtAt(func, i) # 0 THEN FindAtAt(func, i) + 2 - i
        ELSE IF FindChar(func, i, 64) # 0 THEN FindChar(func, i, 64) + 1 - i
        ELSE Len(func) + 1 - i
    ELSE 0

\* the characters one parameter takes: an undecodable one takes one
ParamLen(i) == IF TypeLen(i) = 0 THEN 1 ELSE TypeLen(i)

RECURSIVE ParamStarts(_)
\* the indices at which the parameters of the list starting at i start, up
\* to the first '@' at a parameter boundary
ParamStarts(i) ==
    IF i > Len(func) \/ Ch(func, i) = 64 THEN <<>>
    ELSE <<i>> \o ParamStarts(i + ParamLen(i))

\* the index of the first '@' at a parameter boundary, 0 if there is none
ListEnd(i) ==
    LET starts == ParamStarts(i)
        end == IF starts = <<>> THEN i
               ELSE starts[Len(starts)] + ParamLen(starts[Len(starts)])
    IN  IF Ch(func, end) = 64 THEN end ELSE 0

\* the rendering of the type code at index i with its trailing space removed
ParamText(i) == TrimSpace(Decoded(i).buf)

RECURSIVE JoinComma(_)
\* t1 ', ' t2 ... ', ' tn
JoinComma(ts) ==
    IF Len(ts) = 1 THEN ParamText(ts[1])
    ELSE ParamText(ts[1]) \o Bytes(", ") \o JoinComma(Tail(ts))

\* whether index i holds no type code
Undecodable(i) == Decoded(i).len = 0

\* one diagnostic for each undecodable parameter, in list order
ParamWarnings(ts) ==
    [k \in DOMAIN SelectSeq(ts, Undecodable) |->
        [kind |-> "argtype", ch |-> Ch(func, SelectSeq(ts, Undecodable)[k])]]

\* the list at ListAt is n >= 1 type codes followed by the terminator '@'
ListedTypes == ParamStarts(ListAt) # <<>> /\ ListEnd(ListAt) # 0

\* C21: if the character after the return type is 'X' the arguments stage
\* appends '(void)' and reports nothing; otherwise, for a list of n >= 1 type
\* codes followed by '@', it appends '(' t1 ', ' ... ', ' tn ')' with ti the
\* rendering of the i-th code without its trailing space, and reports one
\* diagnostic for each undecodable code, which takes one character.
C21_AsStated ==
    ListDecoded =>
        IF Ch(func, ListAt) = 88
        THEN /\ stages[6].buf = stages[5].buf \o Bytes("(void)")
             /\ stages[6].warns = stages[5].warns
        ELSE ListedTypes =>
             /\ stages[6].buf
                  = stages[5].buf \o Bytes("(") \o JoinComma(ParamStarts(ListAt))
                    \o Bytes(")")
             /\ stages[6].warns = stages[5].warns \o ParamWarnings(ParamStarts(ListAt))

\* no parameter but the last is a named type, and no parameter but the first
\* is undecodable
PlainList ==
    \A k \in DOMAIN ParamStarts(ListAt) :
        /\ k < Len(ParamStarts(ListAt)) =>
               Ch(func, ParamStarts(ListAt)[k]) \notin {85, 86}
        /\ k > 1 => ~Undecodable(ParamStarts(ListAt)[k])

\* what holds of it: the same, for the lists in which no parameter follows a
\* named type and no undecodable code follows a joiner
C21_PlainLists ==
    ListDecoded =>
        IF Ch(func, ListAt) = 88
        THEN /\ stages[6].buf = stages[5].buf \o Bytes("(void)")
             /\ stages[6].warns = stages[5].warns
        ELSE ListedTypes /\ PlainList =>
             /\ stages[6].buf
                  = stages[5].buf \o Bytes("(") \o JoinComma(ParamStarts(ListAt))
                    \o Bytes(")")
             /\ stages[6].warns = stages[5].warns \o ParamWarnings(ParamStarts(ListAt))

----------------------------------------------------------------------------
(* get_entry_table on its own, taken loop by loop over any stream of       *)
(* bytes.  walk holds the locals length, index, count and i, the size      *)
(* alloc of the calloc'ed array and the position pos of f; visits holds,   *)
(* for each bundle header read, the pass, the position, the two bytes and  *)
(* the bytes of records skipped (pass 1) or read (pass 2) after it.        *)

MaxRaw == 2         \* bundles of a stream

\* bundles as they may stand in a stream: the count byte need not match the
\* records that follow
RawBundles ==
    {<<1, 0>>, <<2, 0>>, <<3, 1>>,
     <<1, 1, 1, 16, 2>>, <<2, 1, 1, 16, 2, 3, 1, 0>>, <<2, 254, 0, 0, 0>>,
     <<1, 255, 1, 205, 63, 2, 4, 3>>, <<2, 255, 3, 0, 0, 1, 0, 255>>,
     <<1, 0, 7, 7, 7>>}

\* the bytes after the table
StreamTail == <<0, 0, 0>>

\* s cut off anywhere
Prefixes(s) == {SubSeq(s, 1, n) : n \in 0..Len(s)}

\* every stream of at most MaxRaw bundles, its terminator and the tail, cut
\* off anywhere
Streams ==
    UNION {Prefixes(Flatten(bs) \o <<0>> \o StreamTail) : bs \in SeqsUpTo(RawBundles, MaxRaw)}

\* get_entry_table(0, ne) is entered: fseek(f, start, SEEK_SET)
EntryInit ==
    /\ input = BaseInput
    /\ \E s \in Streams : f = s
    /\ fs = EmptyDir
    /\ header = <<>>
    /\ enttab = <<>>
    /\ entcount = 0
    /\ modname = <<>>
    /\ description = <<>>
    /\ nametab = <<>>
    /\ imptab = <<>>
    /\ stray = <<>>
    /\ run = 1
    /\ prev = NoPrev
    /\ heap = <<>>
    /\ trace = <<>>
    /\ NoDemangle
    /\ NoMain
    /\ opts = {}
    /\ mode = {}
    /\ diag = <<>>
    /\ pc = "count"
    /\ walk = [pos |-> 0, count |-> 0, length |-> 0, index |-> 0, i |-> 0, alloc |-> 0]
    /\ visits = <<>>

\* the variables get_entry_table does not write
entryFixed ==
    <<input, f, opts, mode, fs, header, modname, description, nametab, imptab, stray,
      run, prev, demangleVars, mainVars, heap, trace>>

\* the position after one getc at pos: no byte is taken at the end of the file
Getc(pos) == IF pos < Len(f) THEN pos + 1 ELSE pos

\* the header read at the position of f, by the given pass
Visit(pass, bytes) ==
    [pass |-> pass, at |-> walk.pos, length |-> ByteAt(f, walk.pos),
     index |-> ByteAt(f, walk.pos + 1), bytes |-> bytes]

\* one turn of the counting loop: while ((length = read_byte())) { ... }
CountBundle ==
    /\ pc = "count"
    /\ IF walk.pos >= Len(f)
       THEN \* every read_byte from here on is 0xff and f never moves back
            /\ pc' = "hang"
            /\ UNCHANGED <<walk, visits>>
       ELSE IF ByteAt(f, walk.pos) = 0
       THEN /\ pc' = "alloc"
            /\ walk' = [walk EXCEPT !.length = 0, !.pos = @ + 1]
            /\ UNCHANGED visits
       ELSE /\ pc' = "count"
            /\ walk' = [walk EXCEPT
                   !.length = ByteAt(f, walk.pos),
                   !.index = ByteAt(f, walk.pos + 1),
                   !.count = @ + ByteAt(f, walk.pos),
                   !.pos = Getc(@ + 1)
                           + BundleSkip(ByteAt(f, walk.pos + 1), ByteAt(f, walk.pos))]
            /\ visits' = Append(visits,
                   Visit(1, BundleSkip(ByteAt(f, walk.pos + 1), ByteAt(f, walk.pos))))
    /\ UNCHANGED <<entryFixed, enttab, entcount, diag>>

\* ne->enttab = calloc(sizeof(struct entry), count); fseek(f, start, SEEK_SET);
\* count = 0;
Calloc ==
    /\ pc = "alloc"
    /\ enttab' = [k \in 1..walk.count |-> ZeroEntry]
    /\ walk' = [walk EXCEPT !.alloc = walk.count, !.count = 0, !.pos = 0]
    /\ pc' = "fill"
    /\ UNCHANGED <<entryFixed, entcount, diag, visits>>

\* the head of the filling loop: length = read_byte(), index = read_byte(),
\* i = 0; after the loop ne->entcount = count
FillBundle ==
    /\ pc = "fill"
    /\ IF walk.pos >= Len(f)
       THEN /\ pc' = "hang"
            /\ UNCHANGED <<walk, visits, entcount>>
       ELSE IF ByteAt(f, walk.pos) = 0
       THEN /\ pc' = "returned"
            /\ entcount' = walk.count
            /\ walk' = [walk EXCEPT !.length = 0, !.pos = @ + 1]
            /\ UNCHANGED visits
       ELSE /\ pc' = "record"
            /\ walk' = [walk EXCEPT !.length = ByteAt(f, walk.pos),
                                    !.index = ByteAt(f, walk.pos + 1),
                                    !.i = 0,
                                    !.pos = Getc(@ + 1)]
            /\ visits' = Append(visits, Visit(2, 0))
            /\ UNCHANGED entcount
    /\ UNCHANGED <<entryFixed, enttab, diag>>

\* the state once the record r was read at write index walk.count
RecordRead(r) ==
    /\ walk' = [walk EXCEPT !.count = @ + 1, !.i = @ + 1, !.pos = @ + r.size]
    /\ visits' = [visits EXCEPT ![Len(visits)].bytes = @ + r.size]
    /\ diag' = diag \o r.warn
    /\ pc' = IF walk.i + 1 < walk.length THEN "record" ELSE "fill"

\* one turn of for (i = 0; i < length; i++): the record is stored in
\* ne->enttab[count]; a store past the calloc'ed array ends the process or
\* lands outside the table
FillRecord ==
    /\ pc = "record"
    /\ IF walk.count < walk.alloc
       THEN /\ RecordRead(DecodeRecord(f, walk.pos, walk.index, walk.count,
                                       enttab[walk.count + 1]))
            /\ enttab' = [enttab EXCEPT ![walk.count + 1] =
                   DecodeRecord(f, walk.pos, walk.index, walk.count, @).entry]
       ELSE IF walk.index = 0
       THEN /\ RecordRead(DecodeRecord(f, walk.pos, walk.index, walk.count, ZeroEntry))
            /\ enttab' = enttab
       ELSE \E ubCrash \in BOOLEAN :
            IF ubCrash
            THEN pc' = "crashed" /\ UNCHANGED <<walk, visits, diag, enttab>>
            ELSE /\ RecordRead(DecodeRecord(f, walk.pos, walk.index, walk.count,
                                            ZeroEntry))
                 /\ enttab' = enttab
    /\ UNCHANGED <<entryFixed, entcount>>

EntryNext == CountBundle \/ Calloc \/ FillBundle \/ FillRecord

EntrySpec == EntryInit /\ [][EntryNext]_vars

----------------------------------------------------------------------------
(* The two passes of get_entry_table against each other                    *)

IsPassOne(v) == v.pass = 1

IsPassTwo(v) == v.pass = 2

\* the headers the counting pass read
PassOne == SelectSeq(visits, IsPassOne)

\* the headers the filling pass has read so far
PassTwo == SelectSeq(visits, IsPassTwo)

\* the bytes the records of a bundle take
RecordBytes(v) ==
    IF v.index = 255 THEN 6 * v.length ELSE IF v.index = 0 THEN 0 ELSE 3 * v.length

\* the filling pass is done with the k-th bundle it read
BundleDone(k) == k < Len(PassTwo) \/ pc \in {"fill", "returned"}

\* the filling pass is running or has returned
Filling == pc \in {"fill", "record", "returned"}

\* C22: on every stream the counting pass gets through, the filling pass reads
\* the bundle headers the counting pass read, at the same positions and in the
\* same order; the counting pass skips 6 * N bytes after a header of type
\* 0xff, 3 * N after one of type 1..0xfe and none after one of type 0, which
\* are the bytes the filling pass reads for the records of that bundle; the
\* write index stays below the size of the array whenever a record is about to
\* be read, the filling pass neither runs off the file nor past the array, and
\* the entry count returned is the size of the array.
C22_PassesAgree ==
    /\ \A k \in DOMAIN PassOne : PassOne[k].bytes = RecordBytes(PassOne[k])
    /\ Len(PassTwo) <= Len(PassOne)
    /\ \A k \in DOMAIN PassTwo :
        /\ PassTwo[k].at = PassOne[k].at
        /\ PassTwo[k].length = PassOne[k].length
        /\ PassTwo[k].index = PassOne[k].index
        /\ BundleDone(k) => PassTwo[k].bytes = PassOne[k].bytes
    /\ pc = "record" => walk.count < walk.alloc
    /\ Filling => walk.pos <= Len(f) /\ walk.alloc = Len(enttab)
    /\ pc = "hang" => walk.alloc = 0 /\ PassTwo = <<>>
    /\ pc # "crashed"
    /\ pc = "returned" =>
        /\ Len(PassTwo) = Len(PassOne)
        /\ entcount = walk.alloc
        /\ entcount = Len(enttab)

\* a stream whose first count byte is larger than the records that follow it:
\* both passes took the next bundle for its records, read the one header and
\* ended on a zero byte after the table's own terminator
C22_Witness ==
    /\ pc = "returned"
    /\ f = <<3, 1, 2, 1, 1, 16, 2, 3, 1, 0, 0, 0, 0, 0>>
    /\ Len(PassOne) = 1
    /\ PassTwo[1].bytes = 9
    /\ walk.pos = 12
    /\ entcount = 3
    /\ enttab[2].offset = 770

----------------------------------------------------------------------------
(* The stores of read_res_name_table against the size of the entry array   *)

\* the name records of the resident and nonresident tables read so far
RecordsSoFar ==
    (IF Len(trace) >= 3 THEN input.res.recs ELSE <<>>)
    \o (IF Len(trace) >= 4 THEN input.nres.recs ELSE <<>>)

\* C23: for every record read_res_name_table has read, the index ordinal-1 at
\* which it stored the name lies in [0, entry count), and no store was made
\* outside the entry array.
C23_AsStated ==
    pc # "crashed" =>
        /\ \A k \in DOMAIN RecordsSoFar :
               RecordsSoFar[k].ord - 1 >= 0 /\ RecordsSoFar[k].ord - 1 < entcount
        /\ stray = <<>>

----------------------------------------------------------------------------
(* The work buffer of demangle against its 1024 bytes                      *)

\* C24: for every name of at most 255 bytes, the text in the work buffer of
\* demangle is at most 1023 characters after every stage, and no strcat or
\* strncat of the decode wrote past the 1024 bytes of the buffer.
C24_AsStated ==
    Len(func) <= MaxName =>
        \A i \in DOMAIN stages :
            /\ Len(stages[i].buf) <= BufSize - 1
            /\ stages[i].st # "overflow"

\* what holds of it: a parameter list of 63 unsigned shorts is rendered in
\* 1019 characters, inside the buffer
C24_LongestThatFits ==
    /\ pc = "stored"
    /\ "DEMANGLE" \in opts
    /\ Len(func) = 72
    => /\ stages[6].st = "ok"
       /\ Len(stages[6].buf) = 1019
       /\ stored = Some(stages[6].buf)

----------------------------------------------------------------------------
(* The signature demangle returns against the name it was built around     *)

\* demangle returned the text of its work buffer
SignatureReturned ==
    pc = "stored" /\ Len(stages) = 6 /\ stages[6].st = "ok" /\ stored = Some(stages[6].buf)

\* the text up to and including the qualified name
ThroughName == stages[4].buf \o ScopedName

\* C25: whenever demangle returns a rendered signature, the result holds
\* what was rendered before the parameter list, the qualified name of func
\* last, then '(' at once, and ends with ')'; also when the character after
\* the return type is already '@'.
C25_AsStated ==
    SignatureReturned =>
        /\ Len(stored[1]) >= Len(ThroughName) + 2
        /\ SubSeq(stored[1], 1, Len(ThroughName) + 1) = ThroughName \o Bytes("(")
        /\ stored[1][Len(stored[1])] = 41

\* what happens to the empty list without 'X': the closing parenthesis is
\* written over the last character of the name and the opening one is cut off
C25_EmptyListClobbersName ==
    SignatureReturned /\ ~ListedParameters =>
        /\ Len(stored[1]) = Len(ThroughName)
        /\ stored[1] = SubSeq(ThroughName, 1, Len(ThroughName) - 1) \o Bytes(")")

====
